---- MODULE Spec2Model ----
(***************************************************************************)
(* Model of the klogstream streaming engine (package stream): the Streamer *)
(* lifecycle (Start / Stop), the per-namespace pod watchers and the        *)
(* per-container log followers with their retry loops, and, run on inputs  *)
(* of their own, the line scanner, the multi-line reassembler with the     *)
(* merge predicates (packages stream and matcher) and the validation of    *)
(* the log filter (package filter).                                        *)
(*                                                                         *)
(* Every goroutine of the program is a process of the model; one action    *)
(* is one run of a goroutine between two points where another goroutine    *)
(* can observe or change shared state (stopCh, the derived context, the    *)
(* WaitGroup, the active map, the handler).                                *)
(***************************************************************************)
EXTENDS Integers, Sequences, FiniteSets, TLC

(***************************************************************************)
(* Bounds of the model.                                                    *)
(***************************************************************************)
MaxStartCalls == 2      \* Start calls the environment may issue
MaxStopCalls == 2       \* Stop calls the environment may issue
MaxFollowers == 2       \* follower goroutines ever spawned
MaxLines == 2           \* lines one follower's streams yield in total
MaxOpens == 1           \* streams one follower opens successfully
MaxIntervalBound == 3   \* RetryPolicy.MaxInterval ranges over 2..this
MaxBytes == 3           \* length of the byte sources given to the scanner
MaxInputLines == 3      \* lines given to the multi-line reassembler
MaxMultilinesBound == 2 \* Config.MaxMultilines ranges over 0..this
MaxRetriesBound == 1    \* RetryPolicy.MaxRetries ranges over 0..MaxRetriesBound
MaxChars == 4           \* length of the lines given to the Java matcher

(***************************************************************************)
(* Configuration: the filter and the cluster the Streamer talks to.        *)
(***************************************************************************)
\* the pods the cluster may report, each with its containers
PodUniverse ==
    { [ns |-> "ns1", name |-> "web", containers |-> <<"app">>],
      [ns |-> "ns2", name |-> "web", containers |-> <<"app">>],
      [ns |-> "ns3", name |-> "web", containers |-> <<"app">>],
      [ns |-> "ns3", name |-> "api", containers |-> <<"app">>],
      [ns |-> "ns3", name |-> "job", containers |-> <<"app">>] }

PodPhases == {"Running", "Succeeded", "Failed"}
EventTypes == {"ADDED", "MODIFIED", "DELETED"}

\* filter.PodNameRegex and filter.ContainerRegex, as the sets they accept
PodNameRegex == {"web", "api"}
ContainerRegex == {"app"}

\* the pod lists a List call on namespace ns may return
ListResults(ns) ==
    {<<>>} \cup { <<p>> : p \in {q \in PodUniverse : q.ns = ns} }

VARIABLES
    env,            \* what the environment may still do (fixed by Init)
    filter,         \* Streamer.filter
    retryPolicy,    \* Streamer.retryPolicy
    stopped,        \* Streamer.stopped
    stopChClosed,   \* Streamer.stopCh has been closed
    stopOnce,       \* Streamer.stopOnce: "fresh", "running" or "done"
    wg,             \* counter of Streamer.wg
    active,         \* keys of Streamer.active
    startCalls,     \* the calls of Start: position, derived context, result
    stopCalls,      \* the calls of Stop: position
    watchers,       \* the watcher goroutines, in spawn order
    followers,      \* the follower goroutines, in spawn order
    onEndCount,     \* number of handler.OnEnd invocations
    lastCalls,      \* the handler calls of the latest step that made any
    scanner,        \* a scanner over a reader, and the tokens it has yielded
    assembler,      \* processLogStream of one follower: buffer and records
    sibling,        \* processLogStream of another follower of the Streamer
    matcher,        \* Streamer.matcher, which the followers share
    mergeCalls,     \* ShouldMerge called on the consecutive lines of a text
    validation      \* a LogFilter and what its Validate returned

vars == <<env, filter, retryPolicy, stopped, stopChClosed, stopOnce, wg,
          active,
          startCalls, stopCalls, watchers, followers, onEndCount, lastCalls,
          scanner, assembler, sibling, matcher, mergeCalls, validation>>

\* the part of the state that never changes
config == <<env, filter, retryPolicy>>

\* the stream-processing parts, which are run on inputs of their own
parts == <<scanner, assembler, sibling, matcher, mergeCalls, validation>>

StartIds == 1..MaxStartCalls
StopIds == 1..MaxStopCalls

(***************************************************************************)
(* Helpers.                                                                *)
(***************************************************************************)
RECURSIVE SumFn(_, _)
SumFn(f, n) == IF n = 0 THEN 0 ELSE f[n] + SumFn(f, n - 1)

AnyStopReturned == \E k \in StopIds : stopCalls[k] = "returned"

\* a derived context that its parent's cancellation would not reach
CtxDoneByCancelOnly(c) == startCalls[c].cancelCalled

\* ctx.Done() of the context derived by Start call c is closed
CtxDone(c) == startCalls[c].parentCancelled \/ startCalls[c].cancelCalled

\* the select { case <-ctx.Done(): case <-s.stopCh: default: } of a worker
\* of Start call c takes one of its return branches
ShouldStop(c) == CtxDone(c) \/ stopChClosed

\* isPermError
isPermError(err) == FALSE

\* errors.IsPodDeletedError on a stream error
IsPodDeletedError(err) == err \in {"EOF", "podgone"}

\* scanner.Err: io.EOF is reported as nil
ScannerErr(serr) == IF serr = "EOF" THEN "nil" ELSE serr

\* Streamer.shouldStreamPod
shouldStreamPod(pod) == pod.name \in PodNameRegex

\* the containers of pod that startPodLogStreamer starts a goroutine for
MatchingContainers(pod) ==
    SelectSeq(pod.containers, LAMBDA cn : cn \in ContainerRegex)

NewFollower(c, pod, cn) ==
    [ns |-> pod.ns, pod |-> pod.name, container |-> cn, ctx |-> c,
     pc |-> "check", retry |-> 0,
     backoff |-> retryPolicy.InitialInterval, sleeps |-> 0,
     scanErr |-> "nil",
     opens |-> 0, lines |-> 0, nLog |-> 0, nErr |-> 0, emptyEOF |-> FALSE,
     orphanRead |-> FALSE]

NewWatcher(c, ns) ==
    [ns |-> ns, ctx |-> c, pc |-> "check", retry |-> 0,
     backoff |-> retryPolicy.InitialInterval, ev |-> "none"]

RECURSIVE SpawnAll(_, _, _)
SpawnAll(c, pod, cns) ==
    IF cns = <<>> THEN <<>>
    ELSE <<NewFollower(c, pod, Head(cns))>> \o SpawnAll(c, pod, Tail(cns))

\* the follower goroutines startPodLogStreamer(ctx of call c, pod) starts
NewFollowers(c, pod) == SpawnAll(c, pod, MatchingContainers(pod))

FollowerDone(f) == f.pc \in {"done", "gaveup"}
WatcherDone(w) == w.pc \in {"done", "gaveup"}

(***************************************************************************)
(* The line scanner.  A reader is the sequence of the results of its Read  *)
(* calls, each a chunk of bytes and an error; the last one carries the     *)
(* error that ends the stream, which every later Read returns again.       *)
(***************************************************************************)
NL == "\n"
Bytes == {"a", "b", NL}

\* the byte sources of at most n bytes
Sources(n) == UNION {[1..k -> Bytes] : k \in 0..n}

\* the source "a\nb\nc\n"
ExampleSource == <<"a", NL, "b", NL, "c", NL>>

\* the ways to cut src into non-empty chunks
RECURSIVE Chunkings(_)
Chunkings(src) ==
    IF src = <<>> THEN {<<>>}
    ELSE UNION { { <<SubSeq(src, 1, k)>> \o rest :
                     rest \in Chunkings(SubSeq(src, k + 1, Len(src))) } :
                 k \in 1..Len(src) }

\* the readers of src that end with the error end: the chunks of a
\* chunking, with the error returned after the last chunk or together with it
ReadersEnding(src, end) ==
    UNION { { [n \in 1..(Len(ch) + 1) |->
                 IF n <= Len(ch) THEN [data |-> ch[n], err |-> "nil"]
                 ELSE [data |-> <<>>, err |-> end]] }
            \cup (IF ch = <<>> THEN {}
                  ELSE { [n \in 1..Len(ch) |->
                            [data |-> ch[n],
                             err |-> IF n = Len(ch) THEN end
                                     ELSE "nil"]] }) :
            ch \in Chunkings(src) }

\* the readers of src that end with io.EOF
Readers(src) == ReadersEnding(src, "EOF")

\* reader.Read: the next result, the last one again once the stream ended
Read(reads, pos) ==
    IF pos <= Len(reads) THEN reads[pos]
    ELSE [data |-> <<>>, err |-> reads[Len(reads)].err]

\* the index of the first newline of a chunk, 0 if it has none
FirstNewline(data) ==
    IF \E n \in DOMAIN data : data[n] = NL
    THEN CHOOSE n \in DOMAIN data :
             data[n] = NL /\ \A m \in 1..(n - 1) : data[m] # NL
    ELSE 0

\* NewScanner
NewScanner(reads) ==
    [run |-> "scanning", reads |-> reads, pos |-> 1, err |-> "nil",
     token |-> <<>>, ok |-> FALSE, out |-> <<>>]

\* no scanner is run
NoScanner ==
    [run |-> "off", reads |-> <<>>, pos |-> 1, err |-> "nil",
     token |-> <<>>, ok |-> FALSE, out |-> <<>>]

\* the loop of scanner.Scan: Read; at a newline the token is what precedes
\* it and the rest of the chunk is left behind; at an error the error is
\* kept and, at io.EOF, a pending token is returned
RECURSIVE ScanLoop(_, _)
ScanLoop(sc, token) ==
    LET rd == Read(sc.reads, sc.pos)
        s1 == [sc EXCEPT !.pos = @ + 1]
        nl == FirstNewline(rd.data)
        tok == token \o rd.data
    IN IF nl > 0
       THEN [s1 EXCEPT !.token = token \o SubSeq(rd.data, 1, nl - 1),
                       !.ok = TRUE]
       ELSE IF rd.err # "nil"
       THEN IF rd.err = "EOF" /\ tok # <<>>
            THEN [s1 EXCEPT !.err = rd.err, !.token = tok, !.ok = TRUE]
            ELSE [s1 EXCEPT !.err = rd.err, !.ok = FALSE]
       ELSE ScanLoop(s1, tok)

\* scanner.Scan
Scan(sc) ==
    IF sc.err # "nil" THEN [sc EXCEPT !.ok = FALSE]
    ELSE ScanLoop(sc, <<>>)

(***************************************************************************)
(* Text.  A line is the sequence of its characters.                        *)
(***************************************************************************)
TAB == "\t"
SP == " "
BS == "\\"

\* the white space that strings.TrimSpace and the regexp class \s know
IsSpace(ch) == ch \in {TAB, SP, NL}

RECURSIVE TrimLeft(_)
TrimLeft(text) ==
    IF text # <<>> /\ IsSpace(Head(text)) THEN TrimLeft(Tail(text)) ELSE text

RECURSIVE TrimRight(_)
TrimRight(text) ==
    IF text # <<>> /\ IsSpace(text[Len(text)])
    THEN TrimRight(SubSeq(text, 1, Len(text) - 1)) ELSE text

\* strings.TrimSpace
TrimSpace(text) == TrimRight(TrimLeft(text))

\* strings.HasPrefix
HasPrefix(text, prefix) ==
    Len(text) >= Len(prefix) /\ SubSeq(text, 1, Len(prefix)) = prefix

\* strings.HasSuffix
HasSuffix(text, suffix) ==
    /\ Len(text) >= Len(suffix)
    /\ SubSeq(text, Len(text) - Len(suffix) + 1, Len(text)) = suffix

\* the number of occurrences of ch in text
Count(text, ch) == Cardinality({n \in DOMAIN text : text[n] = ch})

\* Regexp.MatchString for a pattern of literal characters: the pattern occurs
\* somewhere in text
MatchString(pattern, text) ==
    \E k \in 0..(Len(text) - Len(pattern)) :
        SubSeq(text, k + 1, k + Len(pattern)) = pattern

\* a regular expression of literal characters, and none
Regex(pattern) == [set |-> TRUE, pattern |-> pattern]
NoRegex == [set |-> FALSE, pattern |-> <<>>]

\* lines joined by "\n", as flush builds message and rawBytes
RECURSIVE JoinLines(_)
JoinLines(texts) ==
    IF texts = <<>> THEN <<>>
    ELSE IF Len(texts) = 1 THEN texts[1]
    ELSE texts[1] \o <<NL>> \o JoinLines(Tail(texts))

(***************************************************************************)
(* The merge predicates.  A Streamer has one matcher, which all of its     *)
(* followers call.                                                         *)
(***************************************************************************)
\* NewJSONMatcher, NewJavaStackMatcher, MockMatcher, a matcher that gives
\* the answers it is told to give, and no matcher
NewMatcher(kind) ==
    [kind |-> kind, BracketMode |-> TRUE, BracketCount |-> 0]

NoMatcher == NewMatcher("nil")

CausedBy == <<"C", "a", "u", "s", "e", "d", SP, "b", "y", ":">>

\* TabIndentationRegex: ^\t
TabIndentationRegex(text) == HasPrefix(text, <<TAB>>)

\* AtRegex: ^\s+at
AtRegex(text) ==
    \E k \in 1..Len(text) :
        /\ \A j \in 1..k : IsSpace(text[j])
        /\ HasPrefix(SubSeq(text, k + 1, Len(text)), <<"a", "t", SP>>)

\* CausedByRegex: ^Caused by:
CausedByRegex(text) == HasPrefix(text, CausedBy)

\* JavaStackMatcher.ShouldMerge
JavaShouldMerge(previous, next) ==
    IF TrimSpace(next) = <<>> THEN FALSE
    ELSE IF TabIndentationRegex(next) THEN TRUE
    ELSE IF AtRegex(next) THEN TRUE
    ELSE IF CausedByRegex(next) THEN TRUE
    ELSE HasSuffix(TrimSpace(previous), <<BS>>)

\* StartObjectRegex: ^[^{]*{
StartObjectRegex(text) == Count(text, "{") > 0

\* JSONMatcher.ShouldMerge: the answer and the matcher after the call
JSONShouldMerge(m, previous, next) ==
    IF HasSuffix(TrimSpace(previous), <<BS>>)
    THEN [merge |-> TRUE, matcher |-> m]
    ELSE IF ~m.BracketMode
    THEN [merge |-> FALSE, matcher |-> m]
    ELSE LET braces == Count(previous, "{") - Count(previous, "}")
             counted ==
                 IF StartObjectRegex(previous) /\ m.BracketCount = 0
                 THEN (1 + braces) - 1
                 ELSE m.BracketCount + braces
         IN IF counted <= 0
            THEN [merge |-> FALSE, matcher |-> [m EXCEPT !.BracketCount = 0]]
            ELSE [merge |-> TRUE,
                  matcher |-> [m EXCEPT !.BracketCount = counted]]

\* matcher.ShouldMerge(previous, next) on the Streamer's matcher m; answer is
\* what a matcher of kind "answers" returns
ShouldMerge(m, answer, previous, next) ==
    IF m.kind = "json" THEN JSONShouldMerge(m, previous, next)
    ELSE IF m.kind = "java"
    THEN [merge |-> JavaShouldMerge(previous, next), matcher |-> m]
    ELSE IF m.kind = "never" THEN [merge |-> FALSE, matcher |-> m]
    ELSE [merge |-> answer, matcher |-> m]

\* ShouldMerge is to be called on each pair of consecutive lines
CallsOver(lines) ==
    [run |-> "calling", lines |-> lines, pos |-> 1, answers |-> <<>>]

\* no matcher is called
NoCalls == [CallsOver(<<>>) EXCEPT !.run = "off"]

(***************************************************************************)
(* LogFilter.Validate.  A regex or selector field is set or nil; Since is  *)
(* nil or an instant, and Now is the instant at which Validate reads the   *)
(* clock.                                                                  *)
(***************************************************************************)
Now == 1

DefaultContainerState == "all"

\* NewLogFilter: nothing set, the default container state
NewLogFilter ==
    [PodNameRegex |-> FALSE, ContainerRegex |-> FALSE,
     LabelSelector |-> FALSE, IncludeRegex |-> FALSE,
     Since |-> [set |-> FALSE, at |-> 0],
     ContainerState |-> DefaultContainerState, Namespaces |-> <<>>]

\* LogFilter.IsEmpty
IsEmpty(f) ==
    /\ ~f.PodNameRegex
    /\ ~f.ContainerRegex
    /\ ~f.LabelSelector
    /\ ~f.IncludeRegex
    /\ ~f.Since.set
    /\ (f.ContainerState = DefaultContainerState \/ f.ContainerState = "")
    /\ Len(f.Namespaces) = 0

\* Time.After
After(t, u) == t > u

\* Validate with the since time checked before the container state
ValidateSinceFirst(f) ==
    IF IsEmpty(f) THEN "ErrEmptyFilter"
    ELSE IF Len(f.Namespaces) = 0 THEN "ErrNoNamespaceSpecified"
    ELSE IF f.Since.set /\ After(f.Since.at, Now) THEN "ErrInvalidSinceTime"
    ELSE IF /\ f.ContainerState # ""
            /\ f.ContainerState # "all"
            /\ f.ContainerState # "running"
            /\ f.ContainerState # "terminated"
    THEN "ErrInvalidContainerState"
    ELSE "nil"

\* LogFilter.Validate
Validate(f) ==
    IF IsEmpty(f) THEN "ErrEmptyFilter"
    ELSE IF Len(f.Namespaces) = 0 THEN "ErrNoNamespaceSpecified"
    ELSE IF /\ f.ContainerState # ""
            /\ f.ContainerState # "all"
            /\ f.ContainerState # "running"
            /\ f.ContainerState # "terminated"
    THEN "ErrInvalidContainerState"
    ELSE IF f.Since.set /\ After(f.Since.at, Now) THEN "ErrInvalidSinceTime"
    ELSE "nil"

\* Validate is to be called on the filter f
ValidationOf(f) == [run |-> "built", filter |-> f, err |-> "nil"]

\* no filter is validated
NoValidation == [ValidationOf(NewLogFilter) EXCEPT !.run = "off"]

(***************************************************************************)
(* processLogStream over the lines that the scanner yields: the single-    *)
(* line path when the Streamer has no matcher, the multi-line reassembler  *)
(* of processMultilineLogStream when it has one.  The input is the lines,  *)
(* the error that ends the scan and, for a matcher of kind "answers", what *)
(* it answers for each line after the first.                               *)
(***************************************************************************)
DefaultMaxMultilines == 500

\* NewStreamer: Streamer.maxMultilines for a configured MaxMultilines
MaxMultilinesOf(configured) ==
    IF configured <= 0 THEN DefaultMaxMultilines ELSE configured

\* the answers of the matcher for at most n lines
MergeAnswers(n) ==
    UNION { {m \in [1..k -> BOOLEAN] : k >= 1 => ~m[1]} : k \in 0..n }

\* the state of processLogStream at its start: buffer and records hold the
\* numbers of the lines, delivered what OnLog has received
AssemblerOver(lines, merge, include, end, configured) ==
    [run |-> "reading", lines |-> lines, merge |-> merge,
     include |-> include, end |-> end, next |-> 1,
     maxMultilines |-> MaxMultilinesOf(configured),
     buffer |-> <<>>, lastLine |-> 0, records |-> <<>>, delivered |-> <<>>,
     result |-> "none", deleted |-> FALSE]

\* n lines "a"
PlainLines(n) == [i \in 1..n |-> <<"a">>]

NewAssembler(merge, configured) ==
    AssemblerOver(PlainLines(Len(merge)), merge, NoRegex, "EOF", configured)

\* no reassembler is run
NoAssembler ==
    [AssemblerOver(<<>>, <<>>, NoRegex, "EOF", 1) EXCEPT !.run = "off"]

\* the texts of the lines group of a
TextsOf(a, group) == [k \in DOMAIN group |-> a.lines[group[k]]]

\* IncludeRegex matched against the first line of message only
ExcludedByFirstLine(a, message) ==
    /\ a.include.set
    /\ LET nl == FirstNewline(message)
           first == IF nl = 0 THEN message ELSE SubSeq(message, 1, nl - 1)
       IN ~MatchString(a.include.pattern, first)

\* filter.IncludeRegex is set and does not match message
Excluded(a, message) ==
    a.include.set /\ ~MatchString(a.include.pattern, message)

\* the LogMessage passed to OnLog, after the passthrough formatter
LogMessage(message, raw) == [Message |-> message, Raw |-> raw]

\* a flush whose raw lines all share the bytes of the last line scanned
FlushAliasedRaw(a) ==
    IF a.buffer = <<>> THEN a
    ELSE LET message == JoinLines(TextsOf(a, a.buffer))
             rawBytes == JoinLines([k \in DOMAIN a.buffer |->
                                      a.lines[a.lastLine]])
         IN IF Excluded(a, message) THEN [a EXCEPT !.buffer = <<>>]
            ELSE [a EXCEPT
                    !.records = Append(@, a.buffer),
                    !.delivered = Append(@, LogMessage(message, rawBytes)),
                    !.buffer = <<>>]

\* flush: the buffered lines become one record, which is delivered unless
\* IncludeRegex does not match its message
Flush(a) ==
    IF a.buffer = <<>> THEN a
    ELSE LET message == JoinLines(TextsOf(a, a.buffer))
             rawBytes == JoinLines(TextsOf(a, a.buffer))
         IN IF Excluded(a, message) THEN [a EXCEPT !.buffer = <<>>]
            ELSE [a EXCEPT
                    !.records = Append(@, a.buffer),
                    !.delivered = Append(@, LogMessage(message, rawBytes)),
                    !.buffer = <<>>]

\* the scan loop with the forced flush once the buffer has more than
\* maxMultilines lines
TakeLineLate(a, m) ==
    LET line == a.next
        a1 == [a EXCEPT !.next = @ + 1]
    IN IF a.buffer = <<>>
       THEN [a |-> [a1 EXCEPT !.buffer = <<line>>, !.lastLine = line],
             matcher |-> m]
       ELSE LET sm == ShouldMerge(m, a.merge[line], a.lines[a.lastLine],
                                  a.lines[line])
            IN IF sm.merge
               THEN LET a2 == [a1 EXCEPT !.buffer = Append(@, line),
                                         !.lastLine = line]
                    IN [a |-> IF Len(a2.buffer) > a.maxMultilines
                              THEN Flush(a2) ELSE a2,
                        matcher |-> sm.matcher]
               ELSE [a |-> [Flush(a1) EXCEPT !.buffer = <<line>>,
                                             !.lastLine = line],
                     matcher |-> sm.matcher]

\* the body of the scan loop of processMultilineLogStream for the line
\* a.next, with the Streamer's matcher m: the reassembler and the matcher
\* after it
TakeLine(a, m) ==
    LET line == a.next
        a1 == [a EXCEPT !.next = @ + 1]
    IN IF a.buffer = <<>>
       THEN [a |-> [a1 EXCEPT !.buffer = <<line>>, !.lastLine = line],
             matcher |-> m]
       ELSE LET sm == ShouldMerge(m, a.merge[line], a.lines[a.lastLine],
                                  a.lines[line])
            IN IF sm.merge
               THEN LET a2 == [a1 EXCEPT !.buffer = Append(@, line),
                                         !.lastLine = line]
                    IN [a |-> IF Len(a2.buffer) >= a.maxMultilines
                              THEN Flush(a2) ELSE a2,
                        matcher |-> sm.matcher]
               ELSE [a |-> [Flush(a1) EXCEPT !.buffer = <<line>>,
                                             !.lastLine = line],
                     matcher |-> sm.matcher]

\* the single-line path without the check of IncludeRegex
DeliverLineUnfiltered(a) ==
    LET line == a.next
        a1 == [a EXCEPT !.next = @ + 1]
    IN [a1 EXCEPT
          !.records = Append(@, <<line>>),
          !.delivered = Append(@, LogMessage(a.lines[line], a.lines[line]))]

\* the body of the scan loop of the single-line path for the line a.next
DeliverLine(a) ==
    LET line == a.next
        a1 == [a EXCEPT !.next = @ + 1]
    IN IF Excluded(a, a.lines[line]) THEN a1
       ELSE [a1 EXCEPT
               !.records = Append(@, <<line>>),
               !.delivered = Append(@, LogMessage(a.lines[line],
                                                  a.lines[line]))]

\* one round of the scan loop of processLogStream
LineStep(a, m) ==
    IF m.kind = "nil" THEN [a |-> DeliverLine(a), matcher |-> m]
    ELSE TakeLine(a, m)

\* Scan has returned false: the flush that follows the loop
EndStep(a) == [Flush(a) EXCEPT !.run = "classify"]

(***************************************************************************)
(* Initial state: a Streamer as NewStreamer returns it.                    *)
(***************************************************************************)
Fresh ==
    /\ stopped = FALSE
    /\ stopChClosed = FALSE
    /\ stopOnce = "fresh"
    /\ wg = 0
    /\ active = {}
    /\ startCalls = [c \in StartIds |->
                        [pc |-> "idle", idx |-> 1, items |-> <<>>,
                         result |-> "none", parentCancelled |-> FALSE,
                         cancelCalled |-> FALSE, supervisor |-> "none",
                         afterStop |-> FALSE]]
    /\ stopCalls = [k \in StopIds |-> "idle"]
    /\ watchers = <<>>
    /\ followers = <<>>
    /\ onEndCount = 0
    /\ lastCalls = <<>>

(***************************************************************************)
(* The runs are explored in scenarios.  A scenario fixes the Streamer's    *)
(* configuration and how much the environment does: the calls of Start and *)
(* Stop, the pods it reports and the streams it serves.                    *)
(***************************************************************************)
\* DefaultRetryPolicy, in seconds; Multiplier is MultNum / MultDen
DefaultRetryPolicy ==
    [MaxRetries |-> 5, InitialInterval |-> 1, MaxInterval |-> 30,
     MultNum |-> 2, MultDen |-> 1]

\* a scenario: the Start and Stop calls the environment makes, the followers
\* its pods give rise to, the lines and the streams it serves to a follower,
\* whether its Watch calls may fail, and the Streamer's configuration
Scenario(starts, stops, fols, lines, opens, watchFails, nss, maxRetries) ==
    [env |-> [starts |-> starts, stops |-> stops, followers |-> fols,
              lines |-> lines, opens |-> opens, watchFails |-> watchFails,
              handlerStops |-> FALSE],
     filter |-> [Namespaces |-> nss],
     retryPolicy |-> [DefaultRetryPolicy EXCEPT !.MaxRetries = maxRetries]]

\* several Stop calls around one Start, on one namespace
LifecycleScenario ==
    Scenario(1, MaxStopCalls, 1, 1, 1, TRUE, <<"ns1">>, 0)

\* several Start calls on one Streamer
RestartScenario ==
    Scenario(MaxStartCalls, 1, 0, 1, 1, FALSE, <<"ns1">>, 0)

\* a filter that names two namespaces
NamespacesScenario ==
    Scenario(1, 1, 1, 1, 1, TRUE, <<"ns1", "ns2">>, 0)

\* several followers on a healthy watch
PodsScenario ==
    Scenario(1, 0, MaxFollowers, 0, 0, FALSE, <<"ns1">>, 0)

\* one follower that retries, under each retry policy
FollowerScenarios ==
    { Scenario(1, 1, 1, 1, 1, FALSE, <<"ns1">>, m) :
        m \in 0..MaxRetriesBound }

\* one follower that reconnects
ReconnectScenario ==
    Scenario(1, 1, 1, 1, MaxOpens, FALSE, <<"ns1">>, 1)

\* one follower that reads several lines
ReaderScenario ==
    Scenario(1, 1, 1, MaxLines, 1, FALSE, <<"ns1">>, 0)

\* a watch that fails and is retried
WatcherScenario ==
    Scenario(1, 1, 0, 1, 1, TRUE, <<"ns1">>, MaxRetriesBound)

\* two followers that read, on a healthy watch
ReadersScenario ==
    Scenario(1, 0, 2, 1, 1, FALSE, <<"ns1">>, 0)

\* a namespace with several pods, one of which the filter does not accept
EventsScenario ==
    Scenario(1, 0, 2, 0, 0, FALSE, <<"ns3">>, 0)

\* one follower whose lines go to a handler that calls Stop in OnLog
HandlerStopScenario ==
    [Scenario(1, 0, 1, 1, 1, FALSE, <<"ns1">>, 0)
       EXCEPT !.env.handlerStops = TRUE]

\* the multipliers 1, 1.5 and 2 as MultNum / MultDen
Multipliers == {<<1, 1>>, <<3, 2>>, <<2, 1>>}

\* retry policies with InitialInterval <= MaxInterval and Multiplier >= 1:
\* InitialInterval 1 under each MaxInterval, and 2 under the largest
BackoffPolicies ==
    { p \in [MaxRetries : {2}, InitialInterval : 1..2,
             MaxInterval : 2..MaxIntervalBound,
             MultNum : {m[1] : m \in Multipliers},
             MultDen : {m[2] : m \in Multipliers}] :
        /\ <<p.MultNum, p.MultDen>> \in Multipliers
        /\ p.InitialInterval = 1 \/ p.MaxInterval = MaxIntervalBound }

\* one follower that retries under each of these policies
BackoffScenarios ==
    { [Scenario(1, 0, 1, 0, 1, FALSE, <<"ns1">>, 0)
         EXCEPT !.retryPolicy = p] : p \in BackoffPolicies }

\* a watch that fails and is retried under each of the retry policies
WatcherBackoffScenarios ==
    { [Scenario(1, 0, 0, 0, 0, TRUE, <<"ns1">>, 0)
         EXCEPT !.retryPolicy = p] : p \in BackoffPolicies }

Scenarios ==
    {LifecycleScenario, RestartScenario, NamespacesScenario, PodsScenario,
     WatcherScenario, ReaderScenario, ReconnectScenario, ReadersScenario,
     EventsScenario, HandlerStopScenario}
    \cup FollowerScenarios \cup BackoffScenarios
    \cup WatcherBackoffScenarios

InitOf(scenarios) ==
    /\ \E sc \in scenarios :
         /\ env = sc.env
         /\ filter = sc.filter
         /\ retryPolicy = sc.retryPolicy
    /\ Fresh
    /\ scanner = NoScanner
    /\ assembler = NoAssembler
    /\ sibling = NoAssembler
    /\ matcher = NoMatcher
    /\ mergeCalls = NoCalls
    /\ validation = NoValidation

\* a Streamer that is never started
IdleScenario ==
    Scenario(0, 0, 0, 0, 0, FALSE, <<"ns1">>, 0)

\* the scanners over every reader of the sources of at most MaxBytes bytes
\* and of the example source
Scanners ==
    { NewScanner(reads) :
        reads \in UNION { Readers(src) :
                            src \in Sources(MaxBytes) \cup {ExampleSource} }
                  \cup UNION { ReadersEnding(src, "other") :
                                 src \in Sources(MaxBytes) } }

\* the errors that end the scan of a stream
ScanEnds == {"EOF", "podgone", "other"}

\* the reassemblers over at most MaxInputLines lines, for each configured
\* MaxMultilines
Assemblers ==
    { [NewAssembler(merge, configured) EXCEPT !.end = end] :
        merge \in MergeAnswers(MaxInputLines),
        configured \in 0..MaxMultilinesBound,
        end \in ScanEnds }

\* ten lines that the matcher merges, under maxMultilines = 3
ExampleAssembler ==
    NewAssembler([i \in 1..10 |-> i > 1], 3)

\* the lines of the streams that are reassembled with a matcher of a kind:
\* those that the matcher tells apart, and one that IncludeRegex accepts
LineTexts(kind) ==
    CASE kind = "json" -> { <<"a">>, <<"E">>, <<"{">>, <<"}">> }
      [] kind = "java" -> { <<"a">>, <<"E">>, <<TAB, "a">>, <<"a", BS>> }
      [] OTHER -> { <<"a">>, <<"E">> }

\* the streams of at most n of these lines
Streams(n, kind) == UNION { [1..k -> LineTexts(kind)] : k \in 0..n }

\* filter.IncludeRegex: not set, or the pattern E
IncludeRegexes == {NoRegex, Regex(<<"E">>)}

\* the matchers a Streamer may be given, and none
MatcherKinds == {"nil", "never", "java", "json"}

\* the parts when none of them is run
IdleParts ==
    [scanner |-> NoScanner, assembler |-> NoAssembler,
     sibling |-> NoAssembler, matcher |-> NoMatcher, mergeCalls |-> NoCalls,
     validation |-> NoValidation]

\* a scanner is run
ScannerInputs == { [IdleParts EXCEPT !.scanner = sc] : sc \in Scanners }

\* a reassembler is run with a matcher that answers as told
AssemblerInputs ==
    { [IdleParts EXCEPT !.assembler = a, !.matcher = NewMatcher("answers")] :
        a \in Assemblers \cup {ExampleAssembler} }

\* processLogStream is run on a stream of lines, with each matcher and
\* each IncludeRegex
StreamInputs ==
    UNION { { [IdleParts EXCEPT
                 !.assembler =
                     AssemblerOver(lines, [i \in DOMAIN lines |-> FALSE],
                                   include, end, 0),
                 !.matcher = NewMatcher(kind)] :
                lines \in Streams(MaxInputLines, kind),
                include \in IncludeRegexes, end \in {"EOF", "other"} } :
            kind \in MatcherKinds }

\* the lines of the streams of two followers that share the JSON matcher
BraceTexts == { <<"a">>, <<"{">>, <<"}">> }

\* two followers of one Streamer whose matcher is the JSON matcher
SharedInputs ==
    { [IdleParts EXCEPT
         !.assembler = AssemblerOver(mine, [i \in DOMAIN mine |-> FALSE],
                                     NoRegex, "EOF", 0),
         !.sibling = AssemblerOver(theirs, [i \in DOMAIN theirs |-> FALSE],
                                   NoRegex, "EOF", 0),
         !.matcher = NewMatcher("json")] :
        mine \in UNION { [1..k -> BraceTexts] : k \in 0..(MaxInputLines - 1) },
        theirs \in [1..2 -> BraceTexts] }

\* the lines "next" of the calls of the Java matcher: the lines of at most
\* MaxChars characters out of tab, space, "a" and "t", and two lines that
\* begin with "Caused by:" or hold it
JavaNextLines ==
    UNION { [1..k -> {TAB, SP, "a", "t"}] : k \in 0..MaxChars }
    \cup { CausedBy \o <<SP, "a">>, <<SP>> \o CausedBy }

\* the lines "previous" of these calls
JavaPreviousLines ==
    { <<>>, <<"a">>, <<"a", BS>>, <<"a", BS, SP>>, <<BS, "a">> }

\* the Java matcher is called on a pair of lines
JavaCallInputs ==
    { [IdleParts EXCEPT !.mergeCalls = CallsOver(<<previous, next>>),
                        !.matcher = NewMatcher("java")] :
        previous \in JavaPreviousLines, next \in JavaNextLines }

\* the lines of the texts that the JSON matcher is called on
JSONLines ==
    { <<"a">>, <<"{">>, <<"}">>, <<"{", "}">>, <<"}", "{">>, <<"{", BS>> }

\* the lines "{", "a", "}", "a": an object on three lines and what follows
ExampleObject == << <<"{">>, <<"a">>, <<"}">>, <<"a">> >>

\* a fresh JSON matcher is called on the consecutive lines of a text of at
\* most MaxInputLines lines, and of the example
JSONCallInputs ==
    { [IdleParts EXCEPT !.mergeCalls = CallsOver(lines),
                        !.matcher = NewMatcher("json")] :
        lines \in UNION { [1..k -> JSONLines] : k \in 2..MaxInputLines }
                  \cup {ExampleObject} }

\* the filters that Validate is called on: each field set or not, Since nil
\* or before, at or after Now, the three container states, the empty one
\* and one that is none of them, no namespace or one
LogFilters ==
    [PodNameRegex : BOOLEAN, ContainerRegex : BOOLEAN,
     LabelSelector : BOOLEAN, IncludeRegex : BOOLEAN,
     Since : {[set |-> FALSE, at |-> 0]}
             \cup [set : {TRUE}, at : {Now - 1, Now, Now + 1}],
     ContainerState : {"", "all", "running", "terminated", "invalid"},
     Namespaces : {<<>>, <<"default">>}]

ValidationInputs ==
    { [IdleParts EXCEPT !.validation = ValidationOf(f)] : f \in LogFilters }

PartsInputs ==
    ScannerInputs \cup AssemblerInputs \cup StreamInputs \cup SharedInputs
    \cup JavaCallInputs \cup JSONCallInputs \cup ValidationInputs

\* the parts are run on one of the inputs, on a Streamer that is never
\* started
PartsInit(inputs) ==
    /\ env = IdleScenario.env
    /\ filter = IdleScenario.filter
    /\ retryPolicy = IdleScenario.retryPolicy
    /\ Fresh
    /\ \E in \in inputs :
         /\ scanner = in.scanner
         /\ assembler = in.assembler
         /\ sibling = in.sibling
         /\ matcher = in.matcher
         /\ mergeCalls = in.mergeCalls
         /\ validation = in.validation

Init == InitOf(Scenarios) \/ PartsInit(PartsInputs)

(***************************************************************************)
(* Streamer.Stop.  sync.Once runs the function for the first caller; every *)
(* other caller of Do blocks until that run has returned.                  *)
(***************************************************************************)
\* Stop without the Once: every caller runs the function
StopCallNoOnce(k) ==
    /\ stopCalls[k] = "idle"
    /\ k <= env.stops
    /\ IF k = 1 THEN TRUE ELSE stopCalls[k - 1] # "idle"
    /\ stopOnce' = "running"
    /\ stopped' = TRUE
    /\ stopCalls' = [stopCalls EXCEPT ![k] = "close"]
    /\ UNCHANGED <<config, parts, stopChClosed, wg, active, startCalls,
                   watchers, followers, onEndCount, lastCalls>>

\* a goroutine calls Stop and enters stopOnce.Do; the first caller starts
\* the function and sets s.stopped
StopCall(k) ==
    /\ stopCalls[k] = "idle"
    /\ k <= env.stops
    /\ IF k = 1 THEN TRUE ELSE stopCalls[k - 1] # "idle"
    /\ IF stopOnce = "fresh"
       THEN /\ stopOnce' = "running"
            /\ stopped' = TRUE
            /\ stopCalls' = [stopCalls EXCEPT ![k] = "close"]
       ELSE /\ stopCalls' = [stopCalls EXCEPT ![k] = "blocked"]
            /\ UNCHANGED <<stopOnce, stopped>>
    /\ UNCHANGED <<config, parts, stopChClosed, wg, active, startCalls,
                   watchers, followers, onEndCount, lastCalls>>

\* close(s.stopCh)
StopClose(k) ==
    /\ stopCalls[k] = "close"
    /\ stopChClosed' = TRUE
    /\ stopCalls' = [stopCalls EXCEPT ![k] = "wait"]
    /\ UNCHANGED <<config, parts, stopped, stopOnce, wg, active, startCalls,
                   watchers, followers, onEndCount, lastCalls>>

\* Stop without the wait for the workers
StopWaitNoWait(k) ==
    /\ stopCalls[k] = "wait"
    /\ stopCalls' = [stopCalls EXCEPT ![k] = "onEnd"]
    /\ UNCHANGED <<config, parts, stopped, stopChClosed, stopOnce, wg, active,
                   startCalls, watchers, followers, onEndCount, lastCalls>>

\* s.wg.Wait() returns once the counter is zero
StopWait(k) ==
    /\ stopCalls[k] = "wait"
    /\ wg = 0
    /\ stopCalls' = [stopCalls EXCEPT ![k] = "onEnd"]
    /\ UNCHANGED <<config, parts, stopped, stopChClosed, stopOnce, wg, active,
                   startCalls, watchers, followers, onEndCount, lastCalls>>

\* the Stop call that a handler makes, which follows those of the
\* environment
HandlerStopId == env.stops + 1

\* the followers when Stop call k returns: if it is the one a handler made
\* in OnLog, OnLog returns and the follower's scan loop goes on
AfterStopReturned(k) ==
    [i \in DOMAIN followers |->
        IF k = HandlerStopId /\ followers[i].pc = "instop"
        THEN [followers[i] EXCEPT !.pc = "read"] ELSE followers[i]]

\* s.handler.OnEnd(), then the function passed to Do returns
StopOnEnd(k) ==
    /\ stopCalls[k] = "onEnd"
    /\ onEndCount' = onEndCount + 1
    /\ lastCalls' = <<[method |-> "OnEnd"]>>
    /\ stopOnce' = "done"
    /\ stopCalls' = [stopCalls EXCEPT ![k] = "returned"]
    /\ followers' = AfterStopReturned(k)
    /\ UNCHANGED <<config, parts, stopped, stopChClosed, wg, active,
                   startCalls, watchers>>

\* a caller that found the Once taken returns when the first run is over
StopUnblock(k) ==
    /\ stopCalls[k] = "blocked"
    /\ stopOnce = "done"
    /\ stopCalls' = [stopCalls EXCEPT ![k] = "returned"]
    /\ followers' = AfterStopReturned(k)
    /\ UNCHANGED <<config, parts, stopped, stopChClosed, stopOnce, wg, active,
                   startCalls, watchers, onEndCount, lastCalls>>

(***************************************************************************)
(* Streamer.Start and startPodWatcher, run by the caller of Start.         *)
(***************************************************************************)
\* Start without the stopped check
StoppedReadIgnored == {FALSE}

\* the values the unsynchronised read of s.stopped may yield: the write in
\* Stop is ordered before the read only once a Stop call has returned
StoppedRead ==
    IF stopped /\ ~AnyStopReturned THEN {TRUE, FALSE} ELSE {stopped}

\* Start is called: the stopped check, context.WithCancel and the launch of
\* the supervisor goroutine
StartCall(c) ==
    /\ startCalls[c].pc = "idle"
    /\ c <= env.starts
    /\ IF c = 1 THEN TRUE ELSE startCalls[c - 1].pc # "idle"
    /\ \E seen \in StoppedRead :
         startCalls' = [startCalls EXCEPT ![c] =
            IF seen
            THEN [@ EXCEPT !.pc = "returned", !.result = "stopped",
                           !.afterStop = AnyStopReturned]
            ELSE [@ EXCEPT !.pc = "list", !.supervisor = "running",
                           !.afterStop = AnyStopReturned]]
    /\ UNCHANGED <<config, parts, stopped, stopChClosed, stopOnce, wg, active,
                   stopCalls, watchers, followers, onEndCount, lastCalls>>

\* a supervisor that does not cancel the derived context
SupervisorNoCancel(c) ==
    /\ startCalls[c].supervisor = "running"
    /\ stopChClosed \/ startCalls[c].parentCancelled
    /\ startCalls' = [startCalls EXCEPT ![c].supervisor = "exited"]
    /\ UNCHANGED <<config, parts, stopped, stopChClosed, stopOnce, wg, active,
                   stopCalls, watchers, followers, onEndCount, lastCalls>>

\* the goroutine started by Start: select on s.stopCh and ctx.Done()
Supervisor(c) ==
    /\ startCalls[c].supervisor = "running"
    /\ \/ /\ stopChClosed
          /\ startCalls' = [startCalls EXCEPT ![c].supervisor = "exited",
                                              ![c].cancelCalled = TRUE]
       \/ /\ CtxDone(c)
          /\ startCalls' = [startCalls EXCEPT ![c].supervisor = "exited"]
    /\ UNCHANGED <<config, parts, stopped, stopChClosed, stopOnce, wg, active,
                   stopCalls, watchers, followers, onEndCount, lastCalls>>

\* the environment cancels the context that was passed to Start call c
CancelCtx(c) ==
    /\ startCalls[c].pc \notin {"idle"}
    /\ startCalls[c].result # "stopped"
    /\ ~startCalls[c].parentCancelled
    /\ startCalls' = [startCalls EXCEPT ![c].parentCancelled = TRUE]
    /\ UNCHANGED <<config, parts, stopped, stopChClosed, stopOnce, wg, active,
                   stopCalls, watchers, followers, onEndCount, lastCalls>>

\* the followers that the pods of a list result will get
RECURSIVE ItemsDemand(_, _)
ItemsDemand(c, items) ==
    IF items = <<>> THEN 0
    ELSE (IF shouldStreamPod(Head(items))
          THEN Len(NewFollowers(c, Head(items))) ELSE 0)
         + ItemsDemand(c, Tail(items))

\* followers that exist or that a list result or an event already received
\* will start: the environment hands out pods only within MaxFollowers
Committed ==
    Len(followers)
    + SumFn([c \in StartIds |-> ItemsDemand(c, startCalls[c].items)],
            MaxStartCalls)
    + SumFn([i \in DOMAIN watchers |->
                IF watchers[i].pc = "start"
                THEN Len(NewFollowers(watchers[i].ctx, watchers[i].ev.pod))
                ELSE 0], Len(watchers))

\* Pods(namespace).List for the next namespace of the filter: the items, or
\* an error that Start returns as a permanent LogStreamError
StartList(c) ==
    /\ startCalls[c].pc = "list"
    /\ \/ /\ ~CtxDone(c)
          /\ \E items \in ListResults(filter.Namespaces[startCalls[c].idx]) :
               /\ Committed + ItemsDemand(c, items) <= env.followers
               /\ startCalls' = [startCalls EXCEPT ![c].pc = "spawn",
                                                   ![c].items = items]
       \/ startCalls' = [startCalls EXCEPT ![c].pc = "returned",
                                           ![c].result = "listfail"]
    /\ UNCHANGED <<config, parts, stopped, stopChClosed, stopOnce, wg, active,
                   stopCalls, watchers, followers, onEndCount, lastCalls>>

\* one iteration of the loop over pods.Items: startPodLogStreamer for a pod
\* that shouldStreamPod accepts
StartSpawnPod(c) ==
    /\ startCalls[c].pc = "spawn"
    /\ startCalls[c].items # <<>>
    /\ LET pod == Head(startCalls[c].items)
           new == IF shouldStreamPod(pod) THEN NewFollowers(c, pod) ELSE <<>>
       IN /\ followers' = followers \o new
          /\ wg' = wg + Len(new)
          /\ active' = IF shouldStreamPod(pod)
                       THEN active \cup {pod.name} ELSE active
    /\ startCalls' = [startCalls EXCEPT ![c].items = Tail(@)]
    /\ UNCHANGED <<config, parts, stopped, stopChClosed, stopOnce, stopCalls,
                   watchers, onEndCount, lastCalls>>

\* s.wg.Add(1) and the launch of the namespace's watcher goroutine; after
\* the last namespace startPodWatcher returns nil
StartSpawnWatcher(c) ==
    /\ startCalls[c].pc = "spawn"
    /\ startCalls[c].items = <<>>
    /\ wg' = wg + 1
    /\ watchers' = Append(watchers,
                          NewWatcher(c, filter.Namespaces[startCalls[c].idx]))
    /\ startCalls' = [startCalls EXCEPT ![c] =
          IF @.idx = Len(filter.Namespaces)
          THEN [@ EXCEPT !.pc = "returned", !.result = "nil"]
          ELSE [@ EXCEPT !.pc = "list", !.idx = @ + 1]]
    /\ UNCHANGED <<config, parts, stopped, stopChClosed, stopOnce, active,
                   stopCalls, followers, onEndCount, lastCalls>>

(***************************************************************************)
(* The follower goroutine of startPodLogStreamer, one per container.       *)
(***************************************************************************)
FollowerFrame ==
    UNCHANGED <<config, parts, stopped, stopChClosed, stopOnce, startCalls,
                stopCalls, watchers, onEndCount>>

\* a follower that reports every error as permanent
FollowerErrorPermanent(kind) ==
    [method |-> "OnError", src |-> "follower", kind |-> kind,
     permanent |-> TRUE]

\* handler.OnError called by a follower with NewLogStreamError(err,
\* permanent, ...): of the errors it builds, only "exceeded maximum retries"
\* is permanent
FollowerError(kind) ==
    [method |-> "OnError", src |-> "follower", kind |-> kind,
     permanent |-> (kind = "exceeded")]

\* the errors req.Stream(ctx) may fail with; a request on a context that is
\* done fails with the context's error
OpenOutcomes(c) ==
    IF CtxDone(c) THEN {"cancel"} ELSE {"ok", "podgone", "other"}

\* the ways scanner.Scan may end on an open stream: a line, or the read
\* error it stores; a read on a context that is done fails
ScanOutcomes(f) ==
    IF CtxDone(f.ctx) THEN {"cancel"}
    ELSE {"EOF", "podgone", "other"}
         \cup (IF f.lines < env.lines THEN {"line"} ELSE {})

\* processLogStream dropping every read error
ProcessResultDropped(serr) == "nil"

\* the error processLogStream returns once Scan has returned false with the
\* scanner's error serr: nil, or a LogStreamError that is not permanent
ProcessResult(serr) ==
    IF ScannerErr(serr) = "nil" THEN "nil"
    ELSE IF IsPodDeletedError(ScannerErr(serr)) THEN "nil"
    ELSE IF isPermError(serr) THEN "permanent"
    ELSE "transient"

\* the retry loop without the select at its top
FollowerCheckNoSelect(i) ==
    /\ followers[i].pc = "check"
    /\ followers' = [followers EXCEPT ![i].pc = "open"]
    /\ UNCHANGED <<wg, active, lastCalls>>
    /\ FollowerFrame

\* the select at the top of the retry loop
FollowerCheck(i) ==
    /\ followers[i].pc = "check"
    /\ IF ShouldStop(followers[i].ctx)
       THEN /\ followers' = [followers EXCEPT ![i].pc = "done"]
            /\ wg' = wg - 1
       ELSE /\ followers' = [followers EXCEPT ![i].pc = "open"]
            /\ wg' = wg
    /\ UNCHANGED <<active, lastCalls>>
    /\ FollowerFrame

\* the retry check as retry >= MaxRetries
OpenFailedEarly(f, kind) ==
    IF f.retry + 1 >= retryPolicy.MaxRetries
    THEN [f EXCEPT !.retry = @ + 1, !.nErr = @ + 2, !.pc = "gaveup"]
    ELSE [f EXCEPT !.retry = @ + 1, !.nErr = @ + 1, !.pc = "sleep"]

\* the follower after a failed req.Stream: OnError, retry++, and either the
\* permanent "retries exceeded" error or the backoff sleep
OpenFailed(f, kind) ==
    IF f.retry + 1 > retryPolicy.MaxRetries
    THEN [f EXCEPT !.retry = @ + 1, !.nErr = @ + 2, !.pc = "gaveup"]
    ELSE [f EXCEPT !.retry = @ + 1, !.nErr = @ + 1, !.pc = "sleep"]

\* the follower after req.Stream succeeded: the retry counter is reset and
\* processLogStream starts scanning
OpenSucceeded(f) ==
    [f EXCEPT !.retry = 0, !.backoff = retryPolicy.InitialInterval,
              !.sleeps = 0, !.opens = @ + 1, !.scanErr = "nil",
              !.pc = "read"]

\* a failed open reported without the "retries exceeded" error
OpenErrorsNotExceeded(f, kind) ==
    <<FollowerError(kind)>>

\* what handler.OnError receives for a failed open
OpenErrors(f, kind) ==
    <<FollowerError(kind)>>
    \o (IF f.retry + 1 > retryPolicy.MaxRetries
        THEN <<FollowerError("exceeded")>> ELSE <<>>)

\* req.Stream(ctx) and the handling of its result
FollowerOpen(i) ==
    /\ followers[i].pc = "open"
    /\ \E out \in OpenOutcomes(followers[i].ctx) :
         IF out = "ok"
         THEN /\ followers[i].opens < env.opens
              /\ followers' = [followers EXCEPT ![i] = OpenSucceeded(@)]
              /\ UNCHANGED <<wg, lastCalls>>
         ELSE /\ followers' = [followers EXCEPT ![i] = OpenFailed(@, out)]
              /\ lastCalls' = OpenErrors(followers[i], out)
              /\ wg' = IF followers'[i].pc = "gaveup" THEN wg - 1 ELSE wg
    /\ UNCHANGED active
    /\ FollowerFrame

\* the backoff multiplied without the cap of MaxInterval
NextBackoffUncapped(b) ==
    (b * retryPolicy.MultNum) \div retryPolicy.MultDen

\* the backoff after a sleep: time.Duration(float64(backoff) * Multiplier),
\* which drops the fraction, capped by MaxInterval
NextBackoff(b) ==
    LET next == (b * retryPolicy.MultNum) \div retryPolicy.MultDen
    IN IF next > retryPolicy.MaxInterval
       THEN retryPolicy.MaxInterval ELSE next

\* the backoff sleep, which lasts the follower's backoff: the timer fires,
\* the backoff grows and the loop continues, or the context or the stop
\* channel ends the goroutine
FollowerSleep(i) ==
    /\ followers[i].pc = "sleep"
    /\ \/ /\ followers' = [followers EXCEPT
                               ![i].pc = "check",
                               ![i].backoff = NextBackoff(@),
                               ![i].sleeps = @ + 1]
          /\ wg' = wg
       \/ /\ ShouldStop(followers[i].ctx)
          /\ followers' = [followers EXCEPT ![i].pc = "done"]
          /\ wg' = wg - 1
    /\ UNCHANGED <<active, lastCalls>>
    /\ FollowerFrame

\* the pods processLogStream removes from the active map when scanning ended
\* with the scanner's error serr
ActiveAfterScan(f, serr) ==
    IF ScannerErr(serr) # "nil" /\ IsPodDeletedError(ScannerErr(serr))
    THEN active \ {f.pod} ELSE active

\* the read that follower i completes is one of a pod that is not in the
\* active map
OrphanRead(i) == followers[i].pod \notin active

\* scanner.Scan in processLogStream: a line, or the end of the scan with
\* the classification of scanner.Err that follows the loop
FollowerScan(i) ==
    /\ followers[i].pc = "read"
    /\ \E out \in ScanOutcomes(followers[i]) :
         IF out = "line"
         THEN /\ followers' = [followers EXCEPT
                                   ![i].pc = "line",
                                   ![i].lines = @ + 1,
                                   ![i].orphanRead = OrphanRead(i)]
              /\ active' = active
         ELSE LET serr == IF out = "cancel" THEN "other" ELSE out
              IN /\ followers' = [followers EXCEPT
                       ![i].pc = "after",
                       ![i].scanErr = serr,
                       ![i].orphanRead = OrphanRead(i),
                       ![i].emptyEOF = @ \/ (serr = "EOF"
                                             /\ followers[i].opens = 1
                                             /\ followers[i].lines = 0)]
                 /\ active' = ActiveAfterScan(followers[i], serr)
    /\ UNCHANGED <<wg, lastCalls>>
    /\ FollowerFrame

\* the body of the scan loop: the select, then handler.OnLog; a handler
\* that calls Stop in OnLog enters stopOnce.Do on the follower's goroutine
\* and OnLog does not return before Stop does
FollowerDeliver(i) ==
    /\ followers[i].pc = "line"
    /\ IF ShouldStop(followers[i].ctx)
       THEN /\ followers' = [followers EXCEPT ![i].pc = "after",
                                              ![i].orphanRead = FALSE]
            /\ lastCalls' = lastCalls
            /\ UNCHANGED <<stopOnce, stopped, stopCalls>>
       ELSE /\ lastCalls' = <<[method |-> "OnLog"]>>
            /\ IF env.handlerStops /\ stopCalls[HandlerStopId] = "idle"
               THEN /\ followers' = [followers EXCEPT
                                         ![i].pc = "instop",
                                         ![i].orphanRead = FALSE,
                                         ![i].nLog = @ + 1]
                    /\ IF stopOnce = "fresh"
                       THEN /\ stopOnce' = "running"
                            /\ stopped' = TRUE
                            /\ stopCalls' = [stopCalls EXCEPT
                                                ![HandlerStopId] = "close"]
                       ELSE /\ stopCalls' = [stopCalls EXCEPT
                                                ![HandlerStopId] = "blocked"]
                            /\ UNCHANGED <<stopOnce, stopped>>
               ELSE /\ followers' = [followers EXCEPT
                                         ![i].pc = "read",
                                         ![i].orphanRead = FALSE,
                                         ![i].nLog = @ + 1]
                    /\ UNCHANGED <<stopOnce, stopped, stopCalls>>
    /\ UNCHANGED <<wg, active, config, parts, stopChClosed, startCalls,
                   watchers, onEndCount>>

\* after processLogStream: stream.Close, the select, and the report of the
\* returned error
FollowerAfter(i) ==
    /\ followers[i].pc = "after"
    /\ LET f == followers[i]
           err == ProcessResult(f.scanErr)
       IN IF ShouldStop(f.ctx)
          THEN /\ followers' = [followers EXCEPT
                      ![i].pc = "done", ![i].orphanRead = FALSE]
               /\ wg' = wg - 1
               /\ UNCHANGED lastCalls
          ELSE IF err = "nil"
          THEN /\ followers' = [followers EXCEPT
                      ![i].pc = "check", ![i].orphanRead = FALSE]
               /\ UNCHANGED <<wg, lastCalls>>
          ELSE IF err = "permanent"
          THEN /\ followers' = [followers EXCEPT
                      ![i].pc = "gaveup", ![i].orphanRead = FALSE,
                      ![i].nErr = @ + 1]
               /\ wg' = wg - 1
               /\ lastCalls' =
                      <<[FollowerError("read") EXCEPT !.permanent = TRUE]>>
          ELSE /\ followers' = [followers EXCEPT
                      ![i].pc = "sleep", ![i].orphanRead = FALSE,
                      ![i].nErr = @ + 1]
               /\ wg' = wg
               /\ lastCalls' = <<FollowerError("read")>>
    /\ UNCHANGED active
    /\ FollowerFrame

(***************************************************************************)
(* The watcher goroutine of startPodWatcher, one per namespace.            *)
(***************************************************************************)
WatcherFrame ==
    UNCHANGED <<config, parts, stopped, stopChClosed, stopOnce, startCalls,
                stopCalls, onEndCount>>

\* handler.OnError called by a watcher with NewLogStreamError(err,
\* permanent, ...): of the errors it builds, only "exceeded maximum retries"
\* is permanent
WatcherError(kind) ==
    [method |-> "OnError", src |-> "watcher", kind |-> kind,
     permanent |-> (kind = "exceeded")]

\* the events a watch on namespace ns may deliver
WatchEvents(ns) ==
    [type : EventTypes, pod : {p \in PodUniverse : p.ns = ns},
     phase : PodPhases]

\* the select at the top of the watch loop
WatcherCheck(i) ==
    /\ watchers[i].pc = "check"
    /\ IF ShouldStop(watchers[i].ctx)
       THEN /\ watchers' = [watchers EXCEPT ![i].pc = "done"]
            /\ wg' = wg - 1
       ELSE /\ watchers' = [watchers EXCEPT ![i].pc = "watch"]
            /\ wg' = wg
    /\ UNCHANGED <<active, followers, lastCalls>>
    /\ WatcherFrame

\* a watcher that allows itself one failed Watch more
WatchFailedLate(w) ==
    IF w.retry + 1 > retryPolicy.MaxRetries + 1
    THEN [w EXCEPT !.retry = @ + 1, !.pc = "gaveup"]
    ELSE [w EXCEPT !.retry = @ + 1, !.pc = "sleep"]

\* the watcher after a failed Watch: OnError, retry++, and either the
\* permanent "retries exceeded" error or the backoff sleep
WatchFailed(w) ==
    IF w.retry + 1 > retryPolicy.MaxRetries
    THEN [w EXCEPT !.retry = @ + 1, !.pc = "gaveup"]
    ELSE [w EXCEPT !.retry = @ + 1, !.pc = "sleep"]

\* what handler.OnError receives for a failed Watch
WatchErrors(w, kind) ==
    <<WatcherError(kind)>>
    \o (IF w.retry + 1 > retryPolicy.MaxRetries
        THEN <<WatcherError("exceeded")>> ELSE <<>>)

\* a failed Watch that ends the watchers of the other namespaces as well
WatcherWatchEndsAll(i) ==
    /\ watchers[i].pc = "watch"
    /\ \/ /\ ~CtxDone(watchers[i].ctx)
          /\ watchers' = [watchers EXCEPT
                              ![i].pc = "events",
                              ![i].retry = 0,
                              ![i].backoff = retryPolicy.InitialInterval]
          /\ UNCHANGED <<wg, lastCalls>>
       \/ \E kind \in IF CtxDone(watchers[i].ctx) THEN {"cancel"}
                      ELSE IF env.watchFails THEN {"other"} ELSE {} :
            /\ watchers' = [j \in DOMAIN watchers |->
                               IF j = i THEN WatchFailed(watchers[i])
                               ELSE [watchers[j] EXCEPT !.pc = "done"]]
            /\ lastCalls' = WatchErrors(watchers[i], kind)
            /\ wg' = IF watchers'[i].pc = "gaveup" THEN wg - 1 ELSE wg
    /\ UNCHANGED <<active, followers>>
    /\ WatcherFrame

\* Pods(ns).Watch and the handling of its result
WatcherWatch(i) ==
    /\ watchers[i].pc = "watch"
    /\ \/ /\ ~CtxDone(watchers[i].ctx)
          /\ watchers' = [watchers EXCEPT
                              ![i].pc = "events",
                              ![i].retry = 0,
                              ![i].backoff = retryPolicy.InitialInterval]
          /\ UNCHANGED <<wg, lastCalls>>
       \/ \E kind \in IF CtxDone(watchers[i].ctx) THEN {"cancel"}
                      ELSE IF env.watchFails THEN {"other"} ELSE {} :
            /\ watchers' = [watchers EXCEPT ![i] = WatchFailed(@)]
            /\ lastCalls' = WatchErrors(watchers[i], kind)
            /\ wg' = IF watchers'[i].pc = "gaveup" THEN wg - 1 ELSE wg
    /\ UNCHANGED <<active, followers>>
    /\ WatcherFrame

\* the backoff sleep of the watch loop, which lasts the watcher's backoff:
\* the timer fires and the backoff grows, or the context or the stop channel
\* ends the goroutine
WatcherSleep(i) ==
    /\ watchers[i].pc = "sleep"
    /\ \/ /\ watchers' = [watchers EXCEPT ![i].pc = "check",
                                          ![i].backoff = NextBackoff(@)]
          /\ wg' = wg
       \/ /\ ShouldStop(watchers[i].ctx)
          /\ watchers' = [watchers EXCEPT ![i].pc = "done"]
          /\ wg' = wg - 1
    /\ UNCHANGED <<active, followers, lastCalls>>
    /\ WatcherFrame

\* the active map when only a DELETED event removes the pod
ActiveAfterDeletedOnly(act, ev) ==
    IF ev.type = "DELETED" THEN act \ {ev.pod.name} ELSE act

\* the active map after the part of the event handling that follows the
\* start of the followers: a completed or deleted pod is removed
ActiveAfterEvent(act, ev) ==
    IF ev.type = "DELETED" \/ ev.phase \in {"Succeeded", "Failed"}
    THEN act \ {ev.pod.name} ELSE act

\* the event asks for startPodLogStreamer: an ADDED or MODIFIED pod that
\* shouldStreamPod accepts and that s.active.Load does not find
WantsStart(ev) ==
    /\ ev.type \in {"ADDED", "MODIFIED"}
    /\ shouldStreamPod(ev.pod)
    /\ ev.pod.name \notin active

\* the event ev arrives on watcher.ResultChan(): the select, then the
\* switch on the event type up to the call of startPodLogStreamer
WatcherHandle(i, ev) ==
    /\ watchers[i].pc = "events"
    /\ IF ShouldStop(watchers[i].ctx)
       THEN /\ watchers' = [watchers EXCEPT ![i].pc = "done"]
            /\ wg' = wg - 1
            /\ active' = active
       ELSE IF WantsStart(ev)
       THEN /\ Committed + Len(NewFollowers(watchers[i].ctx, ev.pod))
                  <= env.followers
            /\ watchers' = [watchers EXCEPT ![i].pc = "start",
                                            ![i].ev = ev]
            /\ UNCHANGED <<wg, active>>
       ELSE /\ watchers' = watchers
            /\ active' = ActiveAfterEvent(active, ev)
            /\ wg' = wg
    /\ UNCHANGED <<followers, lastCalls>>
    /\ WatcherFrame

\* an event of the watched namespace arrives
WatcherEvent(i) ==
    \E ev \in WatchEvents(watchers[i].ns) : WatcherHandle(i, ev)

\* startPodLogStreamer for the pod of the event, then the phase check
WatcherStartPod(i) ==
    /\ watchers[i].pc = "start"
    /\ LET ev == watchers[i].ev
           new == NewFollowers(watchers[i].ctx, ev.pod)
       IN /\ followers' = followers \o new
          /\ wg' = wg + Len(new)
          /\ active' = ActiveAfterEvent(active \cup {ev.pod.name}, ev)
    /\ watchers' = [watchers EXCEPT ![i].pc = "events", ![i].ev = "none"]
    /\ UNCHANGED lastCalls
    /\ WatcherFrame

\* a closed result channel that ends the watcher
WatcherClosedEnds(i) ==
    /\ watchers[i].pc = "events"
    /\ watchers' = [watchers EXCEPT ![i].pc = "done"]
    /\ wg' = wg - 1
    /\ UNCHANGED <<active, followers, lastCalls>>
    /\ WatcherFrame

\* the result channel is closed (server timeout, or the watch's context is
\* done): the loop starts over
WatcherClosed(i) ==
    /\ watchers[i].pc = "events"
    /\ watchers' = [watchers EXCEPT ![i].pc = "check"]
    /\ UNCHANGED <<wg, active, followers, lastCalls>>
    /\ WatcherFrame

(***************************************************************************)
(* The parts run on their inputs.                                          *)
(***************************************************************************)
PartsFrame ==
    UNCHANGED <<config, stopped, stopChClosed, stopOnce, wg, active,
                startCalls, stopCalls, watchers, followers, onEndCount,
                lastCalls>>

\* one round of "for scanner.Scan()": the token is yielded, or the loop ends
ScannerScan ==
    /\ scanner.run = "scanning"
    /\ LET sc == Scan(scanner)
       IN scanner' = IF sc.ok THEN [sc EXCEPT !.out = Append(@, sc.token)]
                     ELSE [sc EXCEPT !.run = "ended"]
    /\ UNCHANGED <<assembler, sibling, matcher, mergeCalls, validation>>
    /\ PartsFrame

\* Scan is called once more after it has returned false
ScannerScanAgain ==
    /\ scanner.run = "ended"
    /\ LET sc == Scan(scanner)
       IN scanner' = [sc EXCEPT !.run = "again",
                                !.out = IF sc.ok THEN Append(@, sc.token)
                                        ELSE @]
    /\ UNCHANGED <<assembler, sibling, matcher, mergeCalls, validation>>
    /\ PartsFrame

\* the select of the scan loop finds the context done or the stop channel
\* closed: processLogStream returns nil with the line it has read and with
\* what is buffered
StopStep(a) ==
    [a EXCEPT !.run = "stopped", !.next = @ + 1, !.result = "nil"]

\* what follows the flush: scanner.Err is classified, a pod-gone error
\* deletes the pod from the active map, and processLogStream returns
ReturnStep(a) ==
    [a EXCEPT !.run = "ended",
              !.deleted = (ScannerErr(a.end) # "nil"
                           /\ IsPodDeletedError(ScannerErr(a.end))),
              !.result = ProcessResult(a.end)]

\* one round of the scan loop of processLogStream
AssemblerLine ==
    /\ assembler.run = "reading"
    /\ assembler.next <= Len(assembler.lines)
    /\ LET step == LineStep(assembler, matcher)
       IN /\ assembler' = step.a
          /\ matcher' = step.matcher
    /\ UNCHANGED <<scanner, sibling, mergeCalls, validation>>
    /\ PartsFrame

\* one round of the scan loop in which the select ends processLogStream
AssemblerStop ==
    /\ assembler.run = "reading"
    /\ assembler.next <= Len(assembler.lines)
    /\ assembler' = StopStep(assembler)
    /\ UNCHANGED <<scanner, sibling, matcher, mergeCalls, validation>>
    /\ PartsFrame

\* a reassembler that does not flush when the scan has ended
AssemblerEndNoFlush ==
    /\ assembler.run = "reading"
    /\ assembler.next > Len(assembler.lines)
    /\ assembler' = [assembler EXCEPT !.run = "classify"]
    /\ UNCHANGED <<scanner, sibling, matcher, mergeCalls, validation>>
    /\ PartsFrame

\* Scan has returned false: the flush that follows the loop
AssemblerEnd ==
    /\ assembler.run = "reading"
    /\ assembler.next > Len(assembler.lines)
    /\ assembler' = EndStep(assembler)
    /\ UNCHANGED <<scanner, sibling, matcher, mergeCalls, validation>>
    /\ PartsFrame

\* the classification of scanner.Err and the return of processLogStream
AssemblerReturn ==
    /\ assembler.run = "classify"
    /\ assembler' = ReturnStep(assembler)
    /\ UNCHANGED <<scanner, sibling, matcher, mergeCalls, validation>>
    /\ PartsFrame

\* the other follower: one round of its scan loop
SiblingLine ==
    /\ sibling.run = "reading"
    /\ sibling.next <= Len(sibling.lines)
    /\ LET step == LineStep(sibling, matcher)
       IN /\ sibling' = step.a
          /\ matcher' = step.matcher
    /\ UNCHANGED <<scanner, assembler, mergeCalls, validation>>
    /\ PartsFrame

\* the other follower: the flush after its scan loop, the classification of
\* scanner.Err and the return
SiblingEnd ==
    /\ sibling.run = "reading"
    /\ sibling.next > Len(sibling.lines)
    /\ sibling' = ReturnStep(EndStep(sibling))
    /\ UNCHANGED <<scanner, assembler, matcher, mergeCalls, validation>>
    /\ PartsFrame

\* matcher.ShouldMerge is called on the next pair of consecutive lines
MatcherCall ==
    /\ mergeCalls.run = "calling"
    /\ mergeCalls.pos < Len(mergeCalls.lines)
    /\ LET sm == ShouldMerge(matcher, FALSE, mergeCalls.lines[mergeCalls.pos],
                             mergeCalls.lines[mergeCalls.pos + 1])
       IN /\ matcher' = sm.matcher
          /\ mergeCalls' = [mergeCalls EXCEPT
                          !.answers = Append(@, sm.merge),
                          !.pos = @ + 1,
                          !.run = IF mergeCalls.pos + 1 = Len(mergeCalls.lines)
                                  THEN "done" ELSE "calling"]
    /\ UNCHANGED <<scanner, assembler, sibling, validation>>
    /\ PartsFrame

\* Validate is called on the filter
ValidateFilter ==
    /\ validation.run = "built"
    /\ validation' = [validation EXCEPT
                         !.run = "validated",
                         !.err = Validate(validation.filter)]
    /\ UNCHANGED <<scanner, assembler, sibling, matcher, mergeCalls>>
    /\ PartsFrame

(***************************************************************************)
(* The specification.                                                      *)
(***************************************************************************)
Next ==
    \/ \E k \in StopIds : StopCall(k)
    \/ \E k \in StopIds : StopClose(k)
    \/ \E k \in StopIds : StopWait(k)
    \/ \E k \in StopIds : StopOnEnd(k)
    \/ \E k \in StopIds : StopUnblock(k)
    \/ \E c \in StartIds : StartCall(c)
    \/ \E c \in StartIds : Supervisor(c)
    \/ \E c \in StartIds : CancelCtx(c)
    \/ \E c \in StartIds : StartList(c)
    \/ \E c \in StartIds : StartSpawnPod(c)
    \/ \E c \in StartIds : StartSpawnWatcher(c)
    \/ \E i \in DOMAIN followers : FollowerCheck(i)
    \/ \E i \in DOMAIN followers : FollowerOpen(i)
    \/ \E i \in DOMAIN followers : FollowerSleep(i)
    \/ \E i \in DOMAIN followers : FollowerScan(i)
    \/ \E i \in DOMAIN followers : FollowerDeliver(i)
    \/ \E i \in DOMAIN followers : FollowerAfter(i)
    \/ \E i \in DOMAIN watchers : WatcherCheck(i)
    \/ \E i \in DOMAIN watchers : WatcherWatch(i)
    \/ \E i \in DOMAIN watchers : WatcherSleep(i)
    \/ \E i \in DOMAIN watchers : WatcherEvent(i)
    \/ \E i \in DOMAIN watchers : WatcherStartPod(i)
    \/ \E i \in DOMAIN watchers : WatcherClosed(i)
    \/ ScannerScan
    \/ AssemblerLine
    \/ AssemblerStop
    \/ AssemblerEnd
    \/ AssemblerReturn
    \/ SiblingLine
    \/ SiblingEnd
    \/ ScannerScanAgain
    \/ MatcherCall
    \/ ValidateFilter

Spec == Init /\ [][Next]_vars

\* the WaitGroup counts the watchers and followers that have not returned
WaitGroupCounts ==
    wg = Cardinality({i \in DOMAIN followers : ~FollowerDone(followers[i])})
         + Cardinality({i \in DOMAIN watchers : ~WatcherDone(watchers[i])})

(***************************************************************************)
(* Fair runs.  The program's own steps are taken eventually; a call that   *)
(* blocks on the cluster (List, Watch, the open of a stream, a read) is    *)
(* only known to return once the context it was given is done.  The calls  *)
(* of Start and Stop, the cancellation of the caller's context and what    *)
(* the cluster sends are up to the environment.                            *)
(***************************************************************************)
FollowerProgress(i) ==
    /\ i \in DOMAIN followers
    /\ followers[i].pc \in {"open", "read"} => CtxDone(followers[i].ctx)
    /\ \/ FollowerCheck(i)
       \/ FollowerOpen(i)
       \/ FollowerSleep(i)
       \/ FollowerScan(i)
       \/ FollowerDeliver(i)
       \/ FollowerAfter(i)

WatcherProgress(i) ==
    /\ i \in DOMAIN watchers
    /\ watchers[i].pc \in {"watch", "events"} => CtxDone(watchers[i].ctx)
    /\ \/ WatcherCheck(i)
       \/ WatcherWatch(i)
       \/ WatcherSleep(i)
       \/ WatcherEvent(i)
       \/ WatcherStartPod(i)
       \/ WatcherClosed(i)

StartProgress(c) ==
    \/ CtxDone(c) /\ StartList(c)
    \/ StartSpawnPod(c)
    \/ StartSpawnWatcher(c)
    \/ Supervisor(c)

StopProgress(k) ==
    StopClose(k) \/ StopWait(k) \/ StopOnEnd(k) \/ StopUnblock(k)

\* the scenarios of the fair runs, each with one Start and several Stop
\* calls: a follower that reconnects and retries on a healthy watch, and
\* the watchers of two namespaces that fail and retry
StoppingScenarios ==
    { Scenario(1, MaxStopCalls, 1, 1, 1, FALSE, <<"ns1">>, 1),
      Scenario(1, MaxStopCalls, 0, 1, 1, TRUE, <<"ns1", "ns2">>, 1) }

\* the parts of the fair runs: the scanner over the example source, and two
\* followers that reassemble three lines each with the JSON matcher
FairPartsInputs ==
    { [IdleParts EXCEPT !.scanner = NewScanner(reads)] :
        reads \in Readers(ExampleSource) }
    \cup { [IdleParts EXCEPT
              !.assembler = AssemblerOver(<<<<"{">>, <<"}">>, <<"a">>>>,
                                          <<FALSE, FALSE, FALSE>>,
                                          NoRegex, "EOF", 2),
              !.sibling = AssemblerOver(<<<<"a">>, <<"a">>>>,
                                        <<FALSE, FALSE>>, NoRegex, "EOF", 2),
              !.matcher = NewMatcher("json")],
            [IdleParts EXCEPT !.mergeCalls = CallsOver(ExampleObject),
                              !.matcher = NewMatcher("json")],
            [IdleParts EXCEPT !.validation = ValidationOf(NewLogFilter)] }

\* the goroutines of these scenarios: the Stop calls, the one Start call,
\* its follower and its two watchers
Fairness ==
    /\ \A k \in StopIds : WF_vars(StopProgress(k))
    /\ WF_vars(StartProgress(1))
    /\ WF_vars(FollowerProgress(1))
    /\ \A i \in 1..2 : WF_vars(WatcherProgress(i))

FairSpec ==
    /\ \/ InitOf(StoppingScenarios)
       \/ PartsInit(FairPartsInputs)
    /\ [][Next]_vars
    /\ Fairness

(***************************************************************************)
(* Properties.                                                             *)
(***************************************************************************)
AllWorkersDone ==
    /\ \A i \in DOMAIN followers : FollowerDone(followers[i])
    /\ \A i \in DOMAIN watchers : WatcherDone(watchers[i])

\* the Start calls that launched a watcher or a follower
Launching ==
    {c \in StartIds :
        \/ \E i \in DOMAIN watchers : watchers[i].ctx = c
        \/ \E i \in DOMAIN followers : followers[i].ctx = c}

\* C1: however many Stop calls are made, one after the other or at the same
\* time, before or after Start or without any Start, OnEnd is never invoked
\* twice, and once a Stop call has returned it has been invoked exactly once.
C1_StopFiresOnEndOnce ==
    /\ onEndCount <= 1
    /\ AnyStopReturned => onEndCount = 1

\* two Stop calls have returned on a Streamer that had launched workers
C1_Witness ==
    /\ Cardinality({k \in StopIds : stopCalls[k] = "returned"}) >= 2
    /\ followers # <<>>
    /\ onEndCount = 1

\* C2: once OnEnd has been invoked, and once a Stop call has returned, the
\* handler is not called again: the latest handler call is and remains the
\* OnEnd, also while Start is still listing pods and launching workers.
C2_NothingAfterOnEnd ==
    (onEndCount > 0 \/ AnyStopReturned) => lastCalls = <<[method |-> "OnEnd"]>>

\* OnEnd was invoked after a record had been delivered, while the Start call
\* is still on its way
C2_Witness ==
    /\ onEndCount = 1
    /\ \E i \in DOMAIN followers : followers[i].nLog > 0
    /\ \E c \in StartIds : startCalls[c].pc \in {"list", "spawn"}

\* C3: in a fair run, once Stop has been called on a started Streamer the
\* Stop call returns, OnEnd has been invoked, and every watcher and every
\* follower has terminated.
C3_StopTerminates ==
    \A k \in StopIds :
        (stopCalls[k] # "idle" /\ startCalls[1].pc # "idle")
            ~> (stopCalls[k] = "returned" /\ onEndCount = 1 /\ AllWorkersDone)

\* a Stop call has returned after a watcher and a follower had been launched
C3_Witness ==
    /\ AnyStopReturned
    /\ watchers # <<>>
    /\ followers # <<>>
    /\ AllWorkersDone

\* C4: a Start call made after a Stop call has returned comes back with the
\* permanent "streamer stopped" error without having listed pods, started
\* the supervisor or launched any watcher or follower; and a Streamer that
\* is stopped stays stopped.
C4_StartAfterStop ==
    /\ [](\A c \in StartIds :
            startCalls[c].afterStop =>
                /\ startCalls[c].pc = "returned"
                /\ startCalls[c].result = "stopped"
                /\ startCalls[c].supervisor = "none"
                /\ c \notin Launching)
    /\ [][stopped => stopped']_vars

\* a Start call was made on a Streamer whose Stop had returned
C4_Witness ==
    \E c \in StartIds : startCalls[c].afterStop

\* C5: at most one Start call of a Streamer launches watchers and followers.
C5_SingleStart ==
    Cardinality(Launching) <= 1

\* follower i has a read error of class cls in hand (the scan of its stream
\* has ended with it) and takes the step that follows processLogStream
AfterReadError(i, classes) ==
    /\ i \in DOMAIN followers
    /\ followers[i].pc = "after"
    /\ followers[i].scanErr \in classes
    /\ followers'[i].pc # "after"

\* the step is a failed open of a stream by follower i
OpenFailure(i) ==
    /\ i \in DOMAIN followers
    /\ followers[i].pc = "open"
    /\ followers'[i].pc \in {"sleep", "gaveup"}

\* the step is a failed open of a watch by watcher i
WatchFailure(i) ==
    /\ i \in DOMAIN watchers
    /\ watchers[i].pc = "watch"
    /\ watchers'[i].pc \in {"sleep", "gaveup"}

\* the step is a failed initial listing of Start call c
ListFailure(c) ==
    /\ startCalls[c].pc = "list"
    /\ startCalls'[c].pc = "returned"

\* Start returns the error of a failed listing, and nothing else than that
\* error, the "stopped" error or nil; the step calls no handler
ListFailureReturned ==
    \A c \in StartIds :
       /\ ListFailure(c) =>
            startCalls'[c].result = "listfail" /\ lastCalls' = lastCalls
       /\ startCalls'[c].result \in {"none", "nil", "stopped", "listfail"}
       /\ startCalls'[c].result = "listfail" /\ startCalls[c].result = "none"
            => ListFailure(c)

\* C6 (as claimed): a failed initial listing is returned by Start and not
\* passed to OnError, and every error after the initial listings - every
\* failed open of a watch or a stream, every read error - is passed to
\* OnError.
C6_EveryErrorReported ==
    [][/\ ListFailureReturned
       /\ \A i \in 1..MaxFollowers :
            /\ OpenFailure(i) => followers'[i].nErr > followers[i].nErr
            /\ AfterReadError(i, {"podgone", "other"}) =>
                 followers'[i].nErr > followers[i].nErr]_vars

\* C6 (amended): a failed initial listing is returned by Start and not
\* passed to OnError; Start returns no other error of the cluster; every
\* failed open of a watch or of a stream is passed to OnError, and so is
\* every read error that is not of the pod-gone class when the follower is
\* not cancelled; a pod-gone read error and the read error of a cancelled
\* follower are passed to nobody.
C6_ErrorRouting ==
    [][/\ ListFailureReturned
       /\ \A i \in 1..MaxFollowers :
            /\ OpenFailure(i) =>
                 /\ followers'[i].nErr > followers[i].nErr
                 /\ lastCalls'[1].method = "OnError"
                 /\ lastCalls'[1].src = "follower"
            /\ AfterReadError(i, {"other"}) /\ ~ShouldStop(followers[i].ctx) =>
                 /\ followers'[i].nErr = followers[i].nErr + 1
                 /\ lastCalls' = <<FollowerError("read")>>
            /\ AfterReadError(i, {"other"}) /\ ShouldStop(followers[i].ctx) =>
                 /\ followers'[i].nErr = followers[i].nErr
                 /\ lastCalls' = lastCalls
            /\ AfterReadError(i, {"podgone"}) =>
                 /\ followers'[i].nErr = followers[i].nErr
                 /\ lastCalls' = lastCalls
       /\ \A i \in 1..(2 * MaxStartCalls) :
            WatchFailure(i) =>
                 /\ lastCalls'[1].method = "OnError"
                 /\ lastCalls'[1].src = "watcher"]_vars

\* the listing of the second namespace has failed, and a follower of the
\* first namespace has reported a read error since
C6_Witness ==
    /\ \E c \in StartIds :
         startCalls[c].result = "listfail" /\ startCalls[c].idx = 2
    /\ lastCalls = <<FollowerError("read")>>

\* C7: a follower whose stream ended with a pod-gone condition (EOF or a
\* pod-gone read error) has removed its pod from the active map when the
\* scan returns, and its next step is to exit.
C7_PodGoneEndsFollower ==
    [][\A i \in 1..MaxFollowers :
         /\ (/\ i \in DOMAIN followers
             /\ followers[i].pc = "read"
             /\ followers'[i].pc = "after"
             /\ followers'[i].scanErr \in {"EOF", "podgone"})
              => followers[i].pod \notin active'
         /\ AfterReadError(i, {"EOF", "podgone"}) =>
              FollowerDone(followers'[i])]_vars

\* C8: a follower whose first stream returned EOF before any line never
\* calls OnLog or OnError.
C8_EmptyStreamIsSilent ==
    \A i \in DOMAIN followers :
        followers[i].emptyEOF =>
            followers[i].nLog = 0 /\ followers[i].nErr = 0

\* C9: no OnError call receives an error of the pod-gone class.
C9_PodGoneNeverReported ==
    \A n \in DOMAIN lastCalls :
        lastCalls[n].method = "OnError" => lastCalls[n].kind # "podgone"

\* C10 (as claimed): a follower that has failed MaxRetries times in a row to
\* open a stream has given up.
C10_GivesUpAfterMaxRetries ==
    \A i \in DOMAIN followers :
        (followers[i].retry >= 1
            /\ followers[i].retry >= retryPolicy.MaxRetries)
            => followers[i].pc = "gaveup"

\* C10 (amended): a follower gives up exactly when it has failed
\* MaxRetries + 1 times in a row to open a stream, its retry counter then
\* exceeding MaxRetries, and a successful open sets the counter to zero.
C10_GivesUpAfterMaxRetriesPlusOne ==
    \A i \in DOMAIN followers :
        /\ followers[i].retry <= retryPolicy.MaxRetries + 1
        /\ followers[i].pc = "gaveup"
             <=> followers[i].retry = retryPolicy.MaxRetries + 1
        /\ followers[i].pc \in {"read", "line", "after"}
             => followers[i].retry = 0

\* a follower has given up under MaxRetries = 1 after it had had a stream
C10_Witness ==
    \E i \in DOMAIN followers :
        /\ followers[i].pc = "gaveup"
        /\ followers[i].opens >= 1
        /\ retryPolicy.MaxRetries = 1

\* the permanent errors among the handler calls of a step
PermanentErrors(calls) ==
    Cardinality({n \in DOMAIN calls :
                    calls[n].method = "OnError" /\ calls[n].permanent})

\* C11: under MaxRetries = 0 a follower whose first open fails ends at that
\* failure, the step passing exactly one permanent error to OnError, and a
\* follower that has ended takes no further step: it makes no second attempt.
C11_OneAttemptWithoutRetries ==
    [][\A i \in 1..MaxFollowers :
         /\ (/\ retryPolicy.MaxRetries = 0
             /\ OpenFailure(i)
             /\ followers[i].opens = 0)
              => /\ followers'[i].pc = "gaveup"
                 /\ followers[i].retry = 0
                 /\ PermanentErrors(lastCalls') = 1
         /\ (i \in DOMAIN followers /\ followers[i].pc = "gaveup")
              => followers'[i] = followers[i]]_vars

\* under MaxRetries = 0 a follower has ended at the failure of its first open
C11_Witness ==
    /\ retryPolicy.MaxRetries = 0
    /\ \E i \in DOMAIN followers :
         /\ followers[i].pc = "gaveup"
         /\ followers[i].opens = 0
         /\ followers[i].retry = 1
    /\ PermanentErrors(lastCalls) = 1

RECURSIVE Pow(_, _)
Pow(b, e) == IF e = 0 THEN 1 ELSE b * Pow(b, e - 1)

Min(a, b) == IF a <= b THEN a ELSE b

\* the backoff after n sleeps of a run: InitialInterval, then each time the
\* product with Multiplier rounded down and capped by MaxInterval
RECURSIVE BackoffAfter(_)
BackoffAfter(n) ==
    IF n = 0 THEN retryPolicy.InitialInterval
    ELSE Min((BackoffAfter(n - 1) * retryPolicy.MultNum)
                 \div retryPolicy.MultDen,
             retryPolicy.MaxInterval)

\* C12 (as claimed): the sleep after the i-th failed open in a row lasts
\* min(InitialInterval * Multiplier^(i-1), MaxInterval); with Multiplier =
\* MultNum / MultDen both sides are multiplied by MultDen^(i-1).
C12_BackoffOfFailedOpens ==
    \A i \in DOMAIN followers :
        (followers[i].pc = "sleep" /\ followers[i].retry >= 1) =>
            LET e == followers[i].retry - 1
            IN followers[i].backoff * Pow(retryPolicy.MultDen, e)
                 = Min(retryPolicy.InitialInterval
                           * Pow(retryPolicy.MultNum, e),
                       retryPolicy.MaxInterval
                           * Pow(retryPolicy.MultDen, e))

\* C12 (amended): the sleeps of a run are those after failed opens and the
\* one after a read error that may precede them; the sleep after n sleeps of
\* the run lasts InitialInterval multiplied n times by Multiplier, each
\* product rounded down and capped by MaxInterval, which for an integral
\* Multiplier is min(InitialInterval * Multiplier^n, MaxInterval).
C12_BackoffOfSleeps ==
    \A i \in DOMAIN followers :
        LET f == followers[i]
        IN /\ f.backoff = BackoffAfter(f.sleeps)
           /\ f.backoff >= retryPolicy.InitialInterval
           /\ f.backoff <= retryPolicy.MaxInterval
           /\ retryPolicy.MultDen = 1 =>
                f.backoff = Min(retryPolicy.InitialInterval
                                    * Pow(retryPolicy.MultNum, f.sleeps),
                                retryPolicy.MaxInterval)
           /\ f.sleeps \in {f.retry - 1, f.retry, f.retry + 1}
           /\ f.pc = "sleep" => f.sleeps \in {f.retry - 1, f.retry}
           /\ f.pc \in {"read", "line", "after"} => f.sleeps = 0

\* a follower sleeps for MaxInterval after two failed opens that followed a
\* read error and its sleep
C12_Witness ==
    \E i \in DOMAIN followers :
        /\ followers[i].pc = "sleep"
        /\ followers[i].retry = 2
        /\ followers[i].sleeps = 2
        /\ followers[i].backoff = retryPolicy.MaxInterval
        /\ followers[i].backoff > retryPolicy.InitialInterval

\* C13: a follower whose streams have each ended with a read error that is
\* not pod-gone reconnects at most MaxRetries times: once it has had more
\* than MaxRetries streams, the read error of the latest one ends it, it
\* neither sleeps nor goes round the loop to open another stream.
C13_ReadErrorRetriesBounded ==
    \A i \in DOMAIN followers :
        (/\ followers[i].scanErr = "other"
         /\ followers[i].opens > retryPolicy.MaxRetries
         /\ followers[i].retry = 0)
            => followers[i].pc \notin {"sleep", "check", "open"}

\* C14: a follower never passes to OnError a failure that the cancellation
\* of its context or Stop has caused.
C14_CancelledFollowerIsSilent ==
    \A n \in DOMAIN lastCalls :
        (lastCalls[n].method = "OnError" /\ lastCalls[n].src = "follower")
            => lastCalls[n].kind # "cancel"

\* the step is a request of follower i to open a stream
OpenRequest(i) ==
    /\ i \in DOMAIN followers
    /\ followers[i].pc = "open"
    /\ followers'[i].pc # "open"

\* the step is a request of watcher i to open a watch
WatchRequest(i) ==
    /\ i \in DOMAIN watchers
    /\ watchers[i].pc = "watch"
    /\ watchers'[i].pc # "watch"

\* follower i comes to the point where it requests a stream
FollowerReachesOpen(i) ==
    /\ i \in DOMAIN followers'
    /\ followers'[i].pc = "open"
    /\ i \in DOMAIN followers => followers[i].pc # "open"

\* watcher i comes to the point where it requests a watch
WatcherReachesWatch(i) ==
    /\ i \in DOMAIN watchers'
    /\ watchers'[i].pc = "watch"
    /\ i \in DOMAIN watchers => watchers[i].pc # "watch"

\* C15 (as claimed): once the context is cancelled or the stop channel is
\* closed, no follower requests a stream and no watcher requests a watch.
C15_NoRequestAfterCancel ==
    [][/\ \A i \in 1..MaxFollowers :
            OpenRequest(i) => ~ShouldStop(followers[i].ctx)
       /\ \A i \in 1..(2 * MaxStartCalls) :
            WatchRequest(i) => ~ShouldStop(watchers[i].ctx)]_vars

\* C15 (amended): a worker comes to request a stream or a watch only through
\* the stop check at the top of its loop, at a moment when its context is not
\* cancelled and the stop channel is not closed, and both signals are
\* permanent: after the cancellation a worker makes at most the one request
\* whose stop check it had already passed, and begins no new attempt.
C15_NoNewAttemptAfterCancel ==
    [][/\ \A i \in 1..MaxFollowers :
            FollowerReachesOpen(i) =>
                /\ i \in DOMAIN followers
                /\ followers[i].pc = "check"
                /\ ~ShouldStop(followers[i].ctx)
       /\ \A i \in 1..(2 * MaxStartCalls) :
            WatcherReachesWatch(i) =>
                /\ i \in DOMAIN watchers
                /\ watchers[i].pc = "check"
                /\ ~ShouldStop(watchers[i].ctx)
       /\ \A c \in StartIds : ShouldStop(c) => ShouldStop(c)']_vars

\* a follower has ended after the one failed open that it made when its
\* context was cancelled, and a watcher has ended too
C15_Witness ==
    /\ \E i \in DOMAIN followers :
         /\ followers[i].pc = "done"
         /\ followers[i].retry = 1
         /\ CtxDone(followers[i].ctx)
    /\ lastCalls = <<FollowerError("cancel")>>
    /\ \E i \in DOMAIN watchers : watchers[i].pc = "done"

\* followers i and j tail the same container of the same pod
SameContainer(i, j) ==
    /\ followers[i].ns = followers[j].ns
    /\ followers[i].pod = followers[j].pod
    /\ followers[i].container = followers[j].container

\* C16: no two followers of one (namespace, pod, container) are live at the
\* same time.
C16_OneLiveFollowerPerContainer ==
    \A i, j \in DOMAIN followers :
        (i # j /\ SameContainer(i, j))
            => FollowerDone(followers[i]) \/ FollowerDone(followers[j])

\* C17: a read that a follower completes after its pod has left the active
\* map is its last: the follower's next step is its exit, it neither reads
\* again nor goes round its loop.
C17_ExitsAfterOrphanRead ==
    [][\A i \in 1..MaxFollowers :
         (/\ i \in DOMAIN followers
          /\ followers[i].orphanRead
          /\ followers'[i] # followers[i])
            => FollowerDone(followers'[i])]_vars

\* the step ends follower i with a permanent error
FollowerGivesUp(i) ==
    /\ i \in DOMAIN followers
    /\ followers[i].pc # "gaveup"
    /\ followers'[i].pc = "gaveup"

\* the step ends watcher i with a permanent error
WatcherGivesUp(i) ==
    /\ i \in DOMAIN watchers
    /\ watchers[i].pc # "gaveup"
    /\ watchers'[i].pc = "gaveup"

\* the step leaves alone what stops a worker: the stop channel, the contexts
\* of the Start calls, the active map
SignalsUnchanged ==
    /\ stopChClosed' = stopChClosed
    /\ stopped' = stopped
    /\ startCalls' = startCalls
    /\ active' = active

\* C18: the step in which a follower or a watcher ends with a permanent
\* error changes no other follower and no other watcher - position, retry
\* counter, backoff, what it has read - and neither closes the stop channel
\* nor cancels a context: the other workers run on.
C18_PermanentErrorIsLocal ==
    [][/\ \A i \in 1..MaxFollowers :
            FollowerGivesUp(i) =>
                /\ \A j \in DOMAIN followers' :
                     j # i => (j \in DOMAIN followers
                               /\ followers'[j] = followers[j])
                /\ watchers' = watchers
                /\ SignalsUnchanged
       /\ \A i \in 1..(2 * MaxStartCalls) :
            WatcherGivesUp(i) =>
                /\ \A j \in DOMAIN watchers' :
                     j # i => (j \in DOMAIN watchers
                               /\ watchers'[j] = watchers[j])
                /\ followers' = followers
                /\ SignalsUnchanged]_vars

\* the watcher of one namespace has ended with "retries exceeded" while the
\* watcher of the other receives events and a follower reads
C18_Witness ==
    /\ \E i, j \in DOMAIN watchers :
         /\ watchers[i].pc = "gaveup"
         /\ watchers[j].pc = "events"
         /\ watchers[i].ns # watchers[j].ns
    /\ \E i \in DOMAIN followers : followers[i].pc = "read"
    /\ ~stopChClosed

\* the bytes of a reader, in order
RECURSIVE SourceOf(_)
SourceOf(reads) ==
    IF reads = <<>> THEN <<>>
    ELSE Head(reads).data \o SourceOf(Tail(reads))

\* the newline-delimited lines of src; what follows the last newline is a
\* line if it is not empty
RECURSIVE LinesOf(_)
LinesOf(src) ==
    IF src = <<>> THEN <<>>
    ELSE LET nl == FirstNewline(src)
         IN IF nl = 0 THEN <<src>>
            ELSE <<SubSeq(src, 1, nl - 1)>>
                 \o LinesOf(SubSeq(src, nl + 1, Len(src)))

\* C19: when the scan loop over a reader has ended, the tokens it has yielded
\* are the newline-delimited lines of the reader's bytes, in order.
C19_ScannerYieldsTheLines ==
    scanner.run = "ended" =>
        scanner.out = LinesOf(SourceOf(scanner.reads))

\* C20: every record of the reassembler consists of at least one and of at
\* most maxMultilines lines.
C20_RecordWithinMaxMultilines ==
    \A n \in DOMAIN assembler.records :
        /\ Len(assembler.records[n]) >= 1
        /\ Len(assembler.records[n]) <= assembler.maxMultilines

\* the matcher merges every line that it is asked about
MergesEveryLine(a) ==
    /\ matcher.kind = "answers"
    /\ \A i \in 2..Len(a.merge) : a.merge[i]

\* the lines 1..n in groups of m, the last group holding what remains
GroupsOf(n, m) ==
    [k \in 1..((n + m - 1) \div m) |->
        [j \in 1..Min(m, n - (k - 1) * m) |-> (k - 1) * m + j]]

\* C21: with a predicate that merges every line and maxMultilines = m >= 2,
\* a stream of n lines that has been scanned to its end was delivered as
\* records of m lines each and then one record of the n mod m lines that
\* remain, in the order of the source; while the stream is scanned, every
\* record delivered so far has m lines.
C21_BoundedFlushSplitsEvenly ==
    (MergesEveryLine(assembler) /\ assembler.maxMultilines >= 2) =>
        LET n == Len(assembler.lines)
            m == assembler.maxMultilines
        IN /\ assembler.run = "ended" =>
                /\ assembler.records = GroupsOf(n, m)
                /\ Len(assembler.delivered) = Len(assembler.records)
                /\ \A k \in DOMAIN assembler.records :
                     Len(assembler.records[k])
                        = IF k * m <= n THEN m ELSE n % m
           /\ assembler.run = "reading" =>
                \A k \in DOMAIN assembler.records :
                    assembler.records[k]
                        = [j \in 1..m |-> (k - 1) * m + j]

\* ten merged lines under maxMultilines = 3 were delivered as records of
\* 3, 3, 3 and 1 lines
C21_Witness ==
    /\ assembler.run = "ended"
    /\ MergesEveryLine(assembler)
    /\ assembler.maxMultilines = 3
    /\ Len(assembler.lines) = 10
    /\ [k \in DOMAIN assembler.records |-> Len(assembler.records[k])]
         = <<3, 3, 3, 1>>

\* processLogStream a at its start
Restart(a) ==
    [a EXCEPT !.run = "reading", !.next = 1, !.buffer = <<>>,
              !.lastLine = 0, !.records = <<>>, !.delivered = <<>>,
              !.result = "none", !.deleted = FALSE]

\* processLogStream run from a to its return, with the matcher m that no
\* other follower calls
RECURSIVE Run(_, _)
Run(a, m) ==
    IF a.next <= Len(a.lines)
    THEN LET step == LineStep(a, m) IN Run(step.a, step.matcher)
    ELSE ReturnStep(EndStep(a))

\* the Streamer's matcher answers false whatever it is asked
NeverMerges ==
    \/ matcher.kind = "never"
    \/ /\ matcher.kind = "answers"
       /\ \A i \in DOMAIN assembler.merge : ~assembler.merge[i]

\* C22: with a merge predicate that always returns false, the multi-line
\* path has delivered, when a stream has ended by EOF or by a read error,
\* the records that the single-line path delivers for the same stream under
\* the same IncludeRegex - same Message, same Raw, same order - and returns
\* what the single-line path returns.
C22_NeverMergingIsSingleLine ==
    (NeverMerges /\ assembler.run = "ended") =>
        LET single == Run(Restart(assembler), NoMatcher)
        IN /\ assembler.delivered = single.delivered
           /\ assembler.records = single.records
           /\ assembler.result = single.result
           /\ assembler.deleted = single.deleted

\* under MockMatcher and an IncludeRegex a stream that a read error has
\* ended was delivered as two records, one of its lines being left out
C22_Witness ==
    /\ assembler.run = "ended"
    /\ matcher.kind = "never"
    /\ assembler.end = "other"
    /\ assembler.include.set
    /\ Len(assembler.lines) = 3
    /\ assembler.records = <<<<1>>, <<3>>>>
    /\ Len(assembler.delivered) = 2

\* the message of the record that consists of the lines group of a
MessageOf(a, group) == JoinLines(TextsOf(a, group))

\* C23: when a stream has been scanned to its end under an IncludeRegex,
\* the records delivered are, in order, those of the records assembled from
\* the stream - the ones that are delivered when no IncludeRegex is set -
\* whose whole message the regex matches; each is delivered with all of its
\* lines, those that the regex does not match included.
C23_IncludeRegexPerRecord ==
    (assembler.run = "ended" /\ assembler.include.set
        /\ sibling.run = "off") =>
        LET all == Run([Restart(assembler) EXCEPT !.include = NoRegex],
                       NewMatcher(matcher.kind))
            matching(group) ==
                MatchString(assembler.include.pattern,
                            MessageOf(assembler, group))
        IN /\ assembler.records = SelectSeq(all.records, matching)
           /\ assembler.delivered =
                [k \in DOMAIN assembler.records |->
                    LogMessage(MessageOf(assembler, assembler.records[k]),
                               MessageOf(assembler, assembler.records[k]))]

\* under the JSON matcher and the IncludeRegex E, the lines "{", "E", "}"
\* were delivered as one record of three lines
C23_Witness ==
    /\ assembler.run = "ended"
    /\ matcher.kind = "json"
    /\ assembler.include = Regex(<<"E">>)
    /\ assembler.lines = <<<<"{">>, <<"E">>, <<"}">>>>
    /\ assembler.delivered
         = <<LogMessage(<<"{", NL, "E", NL, "}">>, <<"{", NL, "E", NL, "}">>)>>

\* the step is the one in which the scan of the stream ends: Scan has
\* returned false and the loop is left
ScanEnded ==
    /\ assembler.run = "reading"
    /\ assembler'.run = "classify"

\* the step classifies the error that ended the scan, deletes the pod from
\* the active map if it is of the pod-gone class, and returns
Classified ==
    /\ assembler.run # "ended"
    /\ assembler'.run = "ended"

Delivers(i) ==
    /\ i \in DOMAIN followers
    /\ followers[i].pc = "line"
    /\ followers'[i].nLog = followers[i].nLog + 1

\* C25: the handler receives the records of a container in the order of
\* the container's log.  Each stream serves the log from its start, so a
\* follower on its first stream hands over line number "lines"; when it
\* does, no other follower of the same container on its first stream has
\* handed over that line or a later one.
C25_RecordsInSourceOrder ==
    [][\A i, j \in 1..MaxFollowers :
         (/\ Delivers(i)
          /\ j \in DOMAIN followers
          /\ j # i
          /\ SameContainer(i, j)
          /\ followers[i].opens = 1
          /\ followers[j].opens = 1)
            => followers[j].nLog < followers[i].lines]_vars

\* C26: the records delivered for a follower's stream are those that are
\* delivered when the stream is reassembled alone, with a matcher that no
\* other follower calls - whatever lines the other followers of the
\* Streamer reassemble meanwhile.
C26_ReassemblyIsPerFollower ==
    assembler.run = "ended" =>
        assembler.delivered
            = Run(Restart(assembler), NewMatcher(matcher.kind)).delivered

\* text begins with any number of spaces followed by "at "
OptionalSpacesThenAt(text) ==
    \E k \in 0..Len(text) :
        /\ \A j \in 1..k : text[j] = SP
        /\ HasPrefix(SubSeq(text, k + 1, Len(text)), <<"a", "t", SP>>)

\* the Java matcher has been called once, on the pair (previous, next)
JavaCalled ==
    /\ matcher.kind = "java"
    /\ mergeCalls.run = "done"
    /\ Len(mergeCalls.lines) = 2

\* C27: JavaStackMatcher.ShouldMerge(previous, next) is true iff next is
\* not empty or all white space and next begins with a tab, or with optional
\* spaces and then "at ", or with "Caused by:", or previous, trimmed, ends
\* with a backslash; and the call leaves the matcher as it was.
C27_JavaMatcherRule ==
    JavaCalled =>
        LET previous == mergeCalls.lines[1]
            next == mergeCalls.lines[2]
        IN /\ mergeCalls.answers[1] =
                (/\ TrimSpace(next) # <<>>
                 /\ \/ HasPrefix(next, <<TAB>>)
                    \/ OptionalSpacesThenAt(next)
                    \/ HasPrefix(next, CausedBy)
                    \/ HasSuffix(TrimSpace(previous), <<BS>>))
           /\ matcher = NewMatcher("java")

\* the brace count that a call of ShouldMerge on previous leaves, by the
\* rule of counting: the count before and the braces of previous, not below 0
CountAfter(before, previous) ==
    LET counted == before + Count(previous, "{") - Count(previous, "}")
    IN IF counted > 0 THEN counted ELSE 0

\* C28: from a fresh JSONMatcher, each call of ShouldMerge on consecutive
\* lines leaves the brace count at max(0, count before + number of "{" in
\* previous - number of "}" in previous), and answers true iff that count is
\* positive or previous, trimmed, ends with a backslash.
C28_JSONMatcherCounts ==
    [][(matcher.kind = "json" /\ mergeCalls.run = "calling"
            /\ mergeCalls' # mergeCalls) =>
        LET previous == mergeCalls.lines[mergeCalls.pos]
            after == CountAfter(matcher.BracketCount, previous)
        IN /\ matcher'.BracketCount = after
           /\ mergeCalls'.answers[mergeCalls.pos] =
                (after > 0 \/ HasSuffix(TrimSpace(previous), <<BS>>))]_vars

\* no criterion at all is set in the filter f
NoCriterion(f) ==
    /\ ~(f.PodNameRegex \/ f.ContainerRegex \/ f.LabelSelector
            \/ f.IncludeRegex \/ f.Since.set)
    /\ f.ContainerState \in {"", DefaultContainerState}
    /\ f.Namespaces = <<>>

\* Validate has returned
Validated == validation.run = "validated"

\* the error that the order of decision gives for the filter f when the
\* container states in allowed are the valid ones
ErrorInOrder(f, allowed) ==
    CASE NoCriterion(f) -> "ErrEmptyFilter"
      [] OTHER ->
    CASE f.Namespaces = <<>> -> "ErrNoNamespaceSpecified"
      [] OTHER ->
    CASE f.ContainerState \notin allowed -> "ErrInvalidContainerState"
      [] OTHER ->
    CASE f.Since.set /\ f.Since.at > Now -> "ErrInvalidSinceTime"
      [] OTHER -> "nil"

\* C29 as stated: Validate decides in the order ErrEmptyFilter (no criterion
\* set), ErrNoNamespaceSpecified (no namespace), ErrInvalidContainerState
\* (containerState not one of all, running, terminated), ErrInvalidSinceTime
\* (since in the future), nil.
C29_ValidateOrder_Stated ==
    Validated =>
        validation.err =
            ErrorInOrder(validation.filter, {"all", "running", "terminated"})

\* C29: Validate decides in the order ErrEmptyFilter (no criterion set),
\* ErrNoNamespaceSpecified (no namespace), ErrInvalidContainerState
\* (containerState neither empty nor one of all, running, terminated),
\* ErrInvalidSinceTime (since in the future), nil.
C29_ValidateOrder ==
    Validated =>
        validation.err =
            ErrorInOrder(validation.filter,
                         {"", "all", "running", "terminated"})

\* a filter with a namespace, a container state that is not allowed and a
\* since in the future was given ErrInvalidContainerState
C29_Witness ==
    /\ Validated
    /\ validation.filter.Namespaces # <<>>
    /\ validation.filter.ContainerState = "invalid"
    /\ validation.filter.Since.set
    /\ validation.filter.Since.at > Now
    /\ validation.err = "ErrInvalidContainerState"

\* the events whose handling watcher i ends in this step: in the switch
\* when it starts no follower, else on the return of startPodLogStreamer
EventsHandled(i) ==
    IF watchers[i].pc = "start"
    THEN { ev \in {watchers[i].ev} : WatcherStartPod(i) }
    ELSE IF /\ watchers[i].pc = "events"
            /\ followers' = followers
            /\ watchers' = watchers
    THEN { ev \in WatchEvents(watchers[i].ns) : WatcherHandle(i, ev) }
    ELSE {}

\* the pod of the event ev has completed or is deleted
Gone(ev) == ev.type = "DELETED" \/ ev.phase \in {"Succeeded", "Failed"}

\* C30: the handling of one watch event for pod p leaves the ActiveSet
\* without p after a DELETED event or an ADDED/MODIFIED event with phase
\* Succeeded or Failed, and with p after an ADDED/MODIFIED event with
\* another phase for a pod whose name the pod regex matches; it starts
\* followers only if p matched and was not in the ActiveSet when the event
\* was looked up; the entries of other pod names are unchanged.
C30_WatchEventEffects ==
    [][\A i \in DOMAIN watchers :
        /\ \A ev \in EventsHandled(i) :
                /\ Gone(ev) => ev.pod.name \notin active'
                /\ (~Gone(ev) /\ ev.pod.name \in PodNameRegex)
                        => ev.pod.name \in active'
                /\ followers' # followers =>
                        /\ watchers[i].pc = "start"
                        /\ ev.type \in {"ADDED", "MODIFIED"}
                        /\ ev.pod.name \in PodNameRegex
                /\ active' \ {ev.pod.name} = active \ {ev.pod.name}
        /\ (watchers[i].pc = "events" /\ watchers'[i].pc = "start") =>
                /\ watchers'[i].ev.pod.name \in PodNameRegex
                /\ watchers'[i].ev.pod.name \notin active]_vars

\* in the namespace of several pods, followers of web and of api were
\* started, and the entry of web was removed while that of api stayed
C30_Witness ==
    /\ filter.Namespaces = <<"ns3">>
    /\ active = {"api"}
    /\ \E n \in DOMAIN followers : followers[n].pod = "web"
    /\ \E n \in DOMAIN followers : followers[n].pod = "api"

\* watcher i's goroutine ends in this step
WatcherExits(i) == ~WatcherDone(watchers[i]) /\ WatcherDone(watchers'[i])

\* C31: the closure of the watch channel does not end a watcher, it sends
\* it back to the top of its loop, from where it opens a watch again unless
\* it is cancelled; a watcher exits only when it is cancelled or stopped or
\* when more than MaxRetries opens in a row have failed; the sleep after
\* the n-th failed open in a row lasts InitialInterval multiplied n - 1
\* times by Multiplier, rounded down and capped by MaxInterval, as for a
\* follower; a successful open sets the retry counter to 0 and the backoff
\* to InitialInterval.
C31_WatcherReopens ==
    [][\A i \in DOMAIN watchers :
        LET w == watchers[i]
            v == watchers'[i]
        IN /\ (w.pc = "events" /\ v.pc = "check") =>
                 /\ ~WatcherDone(v)
                 /\ v.retry = 0
                 /\ v.backoff = retryPolicy.InitialInterval
           /\ (w.pc = "check" /\ ~ShouldStop(w.ctx) /\ v # w) => v.pc = "watch"
           /\ WatcherExits(i) =>
                 \/ ShouldStop(w.ctx)
                 \/ v.pc = "gaveup" /\ w.pc = "watch"
                       /\ v.retry = w.retry + 1
                       /\ v.retry > retryPolicy.MaxRetries
           /\ v.pc = "sleep" =>
                 /\ v.retry \in 1..retryPolicy.MaxRetries
                 /\ v.backoff = BackoffAfter(v.retry - 1)
           /\ (w.pc = "sleep" /\ v.pc = "check") =>
                 /\ v.retry = w.retry
                 /\ v.backoff = BackoffAfter(v.retry)
           /\ (w.pc = "watch" /\ v.pc = "events") =>
                 /\ v.retry = 0
                 /\ v.backoff = retryPolicy.InitialInterval]_vars

\* a watcher sleeps after the second failed open in a row, for longer than
\* InitialInterval
C31_Witness ==
    \E i \in DOMAIN watchers :
        /\ watchers[i].pc = "sleep"
        /\ watchers[i].retry = 2
        /\ watchers[i].backoff > retryPolicy.InitialInterval
        /\ watchers[i].backoff < retryPolicy.MaxInterval

\* the error that ends the reader
EndOf(reads) == reads[Len(reads)].err

\* the bytes of src that follow its last newline
RECURSIVE Unterminated(_)
Unterminated(src) ==
    IF FirstNewline(src) = 0 THEN src
    ELSE Unterminated(SubSeq(src, FirstNewline(src) + 1, Len(src)))

\* C32: when Scan has returned false: if the reader ended by EOF with
\* unterminated bytes pending, they were returned, once, as the final line;
\* a later Scan returns false as well and yields nothing; Err() is nil if
\* the reader ended by EOF and is the read error that ended it otherwise.
C32_ScannerTermination ==
    scanner.run \in {"ended", "again"} =>
        LET pending == Unterminated(SourceOf(scanner.reads))
            lines == LinesOf(SourceOf(scanner.reads))
        IN /\ (EndOf(scanner.reads) = "EOF" /\ pending # <<>>) =>
                /\ scanner.out # <<>>
                /\ scanner.out[Len(scanner.out)] = pending
                /\ Len(scanner.out) <= Len(lines)
           /\ scanner.run = "again" => ~scanner.ok
           /\ ScannerErr(scanner.err) = "nil" <=> EndOf(scanner.reads) = "EOF"
           /\ EndOf(scanner.reads) # "EOF" =>
                ScannerErr(scanner.err) = EndOf(scanner.reads)

\* the Start call c has returned an error
StartFailed(c) ==
    startCalls[c].pc = "returned" /\ startCalls[c].result # "nil"

\* C33: when Start has returned an error, no watcher and no follower that
\* the call has launched is running, whichever namespace the failed listing
\* was for; so none of them invokes the handler afterwards.
C33_FailedStartLeavesNoWorker ==
    \A c \in StartIds :
        StartFailed(c) =>
            /\ \A i \in DOMAIN watchers :
                 watchers[i].ctx = c => WatcherDone(watchers[i])
            /\ \A i \in DOMAIN followers :
                 followers[i].ctx = c => FollowerDone(followers[i])

\* a live follower tails container cn of the pod (ns, name) in the followers fs
Followed(fs, ns, name, cn) ==
    \E n \in DOMAIN fs :
        /\ fs[n].ns = ns
        /\ fs[n].pod = name
        /\ fs[n].container = cn
        /\ ~FollowerDone(fs[n])

\* C34: after the handling of an ADDED event for a pod that the filter
\* matches, in a phase other than Succeeded and Failed, each matching
\* container of that pod has a live follower, also when a pod of the same
\* name in another namespace is in the ActiveSet; and a DELETED event for a
\* pod leaves the name of a followed pod of another namespace in the
\* ActiveSet.
C34_FollowedPerNamespace ==
    [][\A i \in DOMAIN watchers :
        \A ev \in EventsHandled(i) :
           /\ (ev.type = "ADDED" /\ ~Gone(ev) /\ shouldStreamPod(ev.pod)) =>
                \A n \in DOMAIN MatchingContainers(ev.pod) :
                    Followed(followers', ev.pod.ns, ev.pod.name,
                             MatchingContainers(ev.pod)[n])
           /\ ev.type = "DELETED" =>
                \A p \in PodUniverse :
                    (/\ p.ns # ev.pod.ns
                     /\ p.name \in active
                     /\ \E n \in DOMAIN MatchingContainers(p) :
                          Followed(followers, p.ns, p.name,
                                   MatchingContainers(p)[n]))
                        => p.name \in active']_vars

\* C35: while the Streamer is neither stopped nor cancelled, every pod name
\* in the ActiveSet has a live follower.
C35_ActivePodHasFollower ==
    (~stopChClosed /\ \A c \in StartIds : ~CtxDone(c)) =>
        \A name \in active :
            \E n \in DOMAIN followers :
                followers[n].pod = name /\ ~FollowerDone(followers[n])

\* follower i is inside a Stop call that its handler has made
InStop(i) == followers[i].pc = "instop"

\* C36: Stop never waits for the worker that is calling it: while a Stop
\* call waits for the workers in wg.Wait, no worker that the wait group
\* counts is itself inside a Stop call made by its handler.
C36_StopNeverWaitsForItsCaller ==
    \A k \in StopIds :
        stopCalls[k] = "wait" => \A i \in DOMAIN followers : ~InStop(i)

\* a step that invokes OnEnd
OnEndInvoked == onEndCount' # onEndCount

\* C37: OnEnd is invoked only by Stop and only once; once the caller's
\* context is cancelled every watcher and follower exits, without OnEnd
\* being invoked by that; every Stop call that returns, also one made after
\* the cancellation, has OnEnd fired exactly once.
C37_OnEndOnlyByStop ==
    /\ [][OnEndInvoked =>
            /\ onEndCount = 0 /\ onEndCount' = 1
            /\ \E k \in StopIds : /\ stopCalls[k] = "onEnd"
                                  /\ stopCalls'[k] = "returned"]_vars
    /\ [](AnyStopReturned => onEndCount = 1)
    /\ \A c \in StartIds :
          startCalls[c].parentCancelled ~> AllWorkersDone

\* the supervisor of Start call 1 left through ctx.Done() of the cancelled
\* caller's context, every worker has exited, and a Stop call has returned
C37_Witness ==
    /\ startCalls[1].parentCancelled
    /\ startCalls[1].supervisor = "exited"
    /\ ~startCalls[1].cancelCalled
    /\ followers # <<>>
    /\ watchers # <<>>
    /\ AllWorkersDone
    /\ AnyStopReturned
    /\ onEndCount = 1

\* the retry policy in force satisfies the stated conditions
PolicyIsSound ==
    /\ 0 < retryPolicy.InitialInterval
    /\ retryPolicy.InitialInterval <= retryPolicy.MaxInterval
    /\ retryPolicy.MultNum >= retryPolicy.MultDen
    /\ retryPolicy.MaxRetries >= 0

\* the retry counter and the backoff of worker w are within their ranges
RetryStateInRange(w) ==
    /\ w.retry \in 0..(retryPolicy.MaxRetries + 1)
    /\ w.backoff >= retryPolicy.InitialInterval
    /\ w.backoff <= retryPolicy.MaxInterval

\* the step leaves every thread other than follower i where it was
OnlyFollowerSteps(i) ==
    /\ watchers' = watchers
    /\ startCalls' = startCalls
    /\ stopCalls' = stopCalls
    /\ \A j \in DOMAIN followers : j # i => followers'[j] = followers[j]

\* the step leaves every thread other than watcher i where it was
OnlyWatcherSteps(i) ==
    /\ startCalls' = startCalls
    /\ stopCalls' = stopCalls
    /\ \A j \in DOMAIN watchers : j # i => watchers'[j] = watchers[j]
    /\ \A j \in DOMAIN followers : followers'[j] = followers[j]

\* C38: under a policy with 0 < InitialInterval <= MaxInterval,
\* Multiplier >= 1 and MaxRetries >= 0, every follower's and watcher's retry
\* counter is within 0..MaxRetries+1 and its backoff within
\* InitialInterval..MaxInterval in every reachable state, and a worker's
\* retry counter and backoff change only in a step of that worker.
C38_RetryStateBounded ==
    /\ [](PolicyIsSound =>
            /\ \A i \in DOMAIN followers : RetryStateInRange(followers[i])
            /\ \A i \in DOMAIN watchers : RetryStateInRange(watchers[i]))
    /\ [][/\ \A i \in DOMAIN followers :
                (\/ followers'[i].retry # followers[i].retry
                 \/ followers'[i].backoff # followers[i].backoff)
                    => OnlyFollowerSteps(i)
          /\ \A i \in DOMAIN watchers :
                (\/ watchers'[i].retry # watchers[i].retry
                 \/ watchers'[i].backoff # watchers[i].backoff)
                    => OnlyWatcherSteps(i)]_vars

\* a follower has used up its retries with its backoff grown to the cap
C38_Witness ==
    /\ PolicyIsSound
    /\ retryPolicy.InitialInterval < retryPolicy.MaxInterval
    /\ \E i \in DOMAIN followers :
          /\ followers[i].pc = "gaveup"
          /\ followers[i].retry = retryPolicy.MaxRetries + 1
          /\ followers[i].backoff = retryPolicy.MaxInterval

\* the records of a, one after the other
RECURSIVE LinesDelivered(_)
LinesDelivered(records) ==
    IF records = <<>> THEN <<>>
    ELSE Head(records) \o LinesDelivered(Tail(records))

\* processLogStream has returned because the scan ended, by EOF or by a
\* read error
StreamEnded == assembler.run = "ended"

NeverOpened(f) == f.opens = 0

\* the step is a failed attempt of follower i to open its stream
OpenAttemptFails(i) ==
    /\ followers[i].pc = "open"
    /\ followers'[i].pc \in {"sleep", "gaveup"}

\* C40: a follower all of whose attempts to open the stream fail reports
\* one non-permanent error per failed attempt, and at the failure of attempt
\* MaxRetries + 1 the permanent "retries exceeded" error on top; it has then
\* made MaxRetries + 1 attempts and MaxRetries + 2 OnError calls and has
\* exited.
C40_FailedOpensCounted ==
    /\ [](\A i \in DOMAIN followers :
            NeverOpened(followers[i]) =>
                IF followers[i].pc = "gaveup"
                THEN /\ followers[i].retry = retryPolicy.MaxRetries + 1
                     /\ followers[i].nErr = retryPolicy.MaxRetries + 2
                ELSE /\ followers[i].retry <= retryPolicy.MaxRetries
                     /\ followers[i].nErr = followers[i].retry)
    /\ [][\A i \in DOMAIN followers :
            /\ (NeverOpened(followers[i]) /\ OpenAttemptFails(i)) =>
                  /\ followers'[i].retry = followers[i].retry + 1
                  /\ Len(lastCalls') >= 1
                  /\ lastCalls'[1].method = "OnError"
                  /\ ~lastCalls'[1].permanent
                  /\ IF followers'[i].pc = "gaveup"
                     THEN /\ followers[i].retry = retryPolicy.MaxRetries
                          /\ Len(lastCalls') = 2
                          /\ lastCalls'[2].method = "OnError"
                          /\ lastCalls'[2].permanent
                          /\ lastCalls'[2].kind = "exceeded"
                          /\ wg' = wg - 1
                     ELSE Len(lastCalls') = 1
            /\ followers[i].pc = "gaveup" => followers'[i] = followers[i]]_vars

\* under MaxRetries = 2 a follower that was not cancelled has given up at
\* its third failed open, with four errors reported
C40_Witness ==
    \E i \in DOMAIN followers :
        /\ followers[i].pc = "gaveup"
        /\ NeverOpened(followers[i])
        /\ ~CtxDone(followers[i].ctx)
        /\ ~stopChClosed
        /\ retryPolicy.MaxRetries = 2
        /\ followers[i].retry = 3
        /\ followers[i].nErr = 4

====
